---- MODULE Spec2Model ----
(***************************************************************************)
(* Content-based movie recommender (backend/app/recommender.py).           *)
(*                                                                         *)
(* Conventions of the model                                                *)
(*  - catalog positions are 1-based (Python's are 0-based);                *)
(*  - an optional value is a sequence of length <= 1: <<>> is None,        *)
(*    <<v>> is the value v; a key that is absent from a dict is a field    *)
(*    that is absent from the record;                                      *)
(*  - vote_average is kept in tenths (82 is 8.2), multipliers in percent   *)
(*    (130 is 1.3) and similarities / scores are fixed-point numbers with  *)
(*    Scale units to 1.0; every multiplication rounds (down), as a float   *)
(*    multiplication rounds;                                               *)
(*  - a text is a sequence of words.                                       *)
(***************************************************************************)
EXTENDS Integers, Sequences, FiniteSets, TLC

(***************************************************************************)
(* Bounds of the model.                                                    *)
(***************************************************************************)
\* largest k of a request
MaxK == 2
\* largest Len(liked_ids) + Len(disliked_ids) of a request
MaxIds == 2
\* an id that no catalog item has
UnknownId == 9

(***************************************************************************)
(* Program constants (recommender.py, lines 8-56).                         *)
(***************************************************************************)
WEIGHT_GENRES == 5
WEIGHT_KEYWORDS == 6
WEIGHT_DIRECTOR == 3
WEIGHT_CAST == 2
WEIGHT_CERTIFICATION == 2
MAX_OVERVIEW_WORDS == 150
MAX_CAST_MEMBERS == 5
MAX_COMPANIES == 3
MAX_COUNTRIES == 2
MIN_VOTES_FOR_QUALITY == 50
CURRENT_YEAR == 2026
BOOST_POPULARITY_SCALE == 40
\* multipliers, in percent
BOOST_RATING_EXCELLENT == 130
BOOST_RATING_VERY_GOOD == 120
BOOST_RATING_GOOD == 115
BOOST_RATING_DECENT == 110
PENALTY_RATING_POOR == 80
BOOST_RECENT_MOVIES == 105
BOOST_MODERN_MOVIES == 102
BOOST_CLASSICS == 101
BOOST_COLLECTION == 110
BOOST_SAME_FRANCHISE == 130
DIVERSITY_BOOST_NEW_DIRECTOR == 120
DIVERSITY_BOOST_NEW_COMPANY == 115
DIVERSITY_BOOST_SOME_OVERLAP == 105
DIVERSITY_BOOST_NEW_KEYWORDS == 110
DIVERSITY_PENALTY_KEYWORD_OVERLAP == 85
DIVERSITY_BOOST_NEW_DECADE == 108
GENRE_PENALTY_HIGH_OVERLAP == 80
GENRE_PENALTY_MEDIUM_OVERLAP == 90
GENRE_PENALTY_LOW_OVERLAP == 95
\* ratings, in tenths
RATING_THRESHOLD_EXCELLENT == 80
RATING_THRESHOLD_VERY_GOOD == 75
RATING_THRESHOLD_GOOD == 70
RATING_THRESHOLD_DECENT == 65
RATING_THRESHOLD_POOR == 50
AGE_RECENT == 3
AGE_MODERN == 10
AGE_CLASSIC == 40
\* overlap ratios, in tenths
KEYWORD_OVERLAP_LOW == 3
KEYWORD_OVERLAP_HIGH == 7
\* the dislike dampening factor 0.1, in percent
DISLIKE_FACTOR == 10
\* the neutral multiplier 1.0, in percent
NEUTRAL == 100

(***************************************************************************)
(* Generic helpers.                                                        *)
(***************************************************************************)
Range(s) == {s[i] : i \in DOMAIN s}

Min(a, b) == IF a <= b THEN a ELSE b

Max(a, b) == IF a >= b THEN a ELSE b

\* s[:n] of Python: the first n items, and for n < 0 all but the last -n
Take(s, n) == IF n >= 0 THEN SubSeq(s, 1, Min(n, Len(s))) ELSE SubSeq(s, 1, Len(s) + n)

\* dict.get(key, default)
Get(m, key, default) == IF key \in DOMAIN m THEN m[key] ELSE default

\* truthiness of an optional number: None, an absent key and 0 are falsy
Truthy(opt) == opt # <<>> /\ opt[1] # 0

\* [f(x) for x in s if x in keep]
RECURSIVE SelectIn(_, _)
SelectIn(s, keep) ==
    IF s = <<>> THEN <<>>
    ELSE IF Len(s) = 1 THEN (IF s[1] \in keep THEN s ELSE <<>>)
    ELSE LET half == Len(s) \div 2
         IN SelectIn(SubSeq(s, 1, half), keep) \o SelectIn(SubSeq(s, half + 1, Len(s)), keep)

RECURSIVE SumSet(_, _)
SumSet(f, S) ==
    IF S = {} THEN 0
    ELSE LET x == CHOOSE y \in S : TRUE IN f[x] + SumSet(f, S \ {x})

\* floor of the square root, by bisection on lo..hi
RECURSIVE IsqrtIn(_, _, _)
IsqrtIn(x, lo, hi) ==
    IF lo >= hi THEN lo
    ELSE LET mid == (lo + hi + 1) \div 2
         IN IF mid * mid <= x THEN IsqrtIn(x, mid, hi) ELSE IsqrtIn(x, lo, mid - 1)

Isqrt(x) == IsqrtIn(x, 0, 40000)

\* tuples of integers, compared lexicographically
RECURSIVE LexGreater(_, _)
LexGreater(a, b) ==
    IF a = <<>> \/ b = <<>> THEN FALSE
    ELSE IF Head(a) # Head(b) THEN Head(a) > Head(b)
    ELSE LexGreater(Tail(a), Tail(b))

\* list.sort(key=..., reverse=True): descending by key, stable (equal keys keep
\* their order); s is a sequence of records with a field key (a tuple)
SortDesc(s) ==
    LET n == Len(s)
        place(i) == 1 + Cardinality({j \in 1..n :
                        \/ LexGreater(s[j].key, s[i].key)
                        \/ (s[j].key = s[i].key /\ j < i)})
    IN [p \in 1..n |-> s[CHOOSE i \in 1..n : place(i) = p]]

(***************************************************************************)
(* Item records.  The catalog handed to the recommender is the output of   *)
(* build_dataset (data.py): every key is present, an optional value may be *)
(* None, decade and popularity_tier are derived from year and popularity.  *)
(***************************************************************************)
Batman == [id |-> 263, name |-> "Batman"]

M1 == [id |-> 1, title |-> "Heat", year |-> 1995,
       genres |-> <<"Crime", "Drama">>, director |-> "Mann",
       keywords |-> <<"heist", "police", "night">>,
       cast |-> <<"Pacino", "Kilmer">>,
       production_companies |-> <<"Regency">>, certification |-> "R",
       decade |-> "1990s", original_language |-> "en",
       production_countries |-> <<"US">>, overview |-> <<"Thief", "cop">>,
       tagline |-> <<>>, popularity_tier |-> "Viral",
       popularity |-> <<50>>, vote_average |-> <<70>>, vote_count |-> <<200>>,
       belongs_to_collection |-> <<>>]

M2 == [id |-> 2, title |-> "Begins", year |-> 2005,
       genres |-> <<"Crime", "Action">>, director |-> "Nolan",
       keywords |-> <<"police", "night", "hero">>,
       cast |-> <<"Bale", "Caine">>,
       production_companies |-> <<"Warner">>, certification |-> "PG",
       decade |-> "2000s", original_language |-> "en",
       production_countries |-> <<"US">>, overview |-> <<>>,
       tagline |-> <<>>, popularity_tier |-> "High",
       popularity |-> <<30>>, vote_average |-> <<90>>, vote_count |-> <<500>>,
       belongs_to_collection |-> <<Batman>>]

M3 == [id |-> 3, title |-> "Catwoman", year |-> 2004,
       genres |-> <<"Action">>, director |-> "Pitof",
       keywords |-> <<"hero">>, cast |-> <<"Berry">>,
       production_companies |-> <<"Warner">>, certification |-> "PG",
       decade |-> "2000s", original_language |-> "en",
       production_countries |-> <<"US">>, overview |-> <<>>,
       tagline |-> <<>>, popularity_tier |-> "Medium",
       popularity |-> <<10>>, vote_average |-> <<50>>, vote_count |-> <<300>>,
       belongs_to_collection |-> <<>>]

M4 == [id |-> 4, title |-> "Knight", year |-> 2024,
       genres |-> <<"Drama", "Action", "Crime">>, director |-> "Nolan",
       keywords |-> <<"police", "night", "hero", "joker", "chaos", "bank">>,
       cast |-> <<"Bale", "Caine", "Ledger">>,
       production_companies |-> <<"Warner", "Legendary", "Syncopy">>,
       certification |-> "PG",
       decade |-> "2020s", original_language |-> "en",
       production_countries |-> <<"US">>, overview |-> <<>>,
       tagline |-> <<>>, popularity_tier |-> "High",
       popularity |-> <<30>>, vote_average |-> <<90>>, vote_count |-> <<900>>,
       belongs_to_collection |-> <<Batman>>]

\* a record whose vote_count is None (data.py, line 126) while its
\* vote_average is known
M5 == [id |-> 5, title |-> "Indie", year |-> 2020,
       genres |-> <<"Drama">>, director |-> "Desconhecido",
       keywords |-> <<>>, cast |-> <<>>,
       production_companies |-> <<>>, certification |-> "",
       decade |-> "2020s", original_language |-> "",
       production_countries |-> <<>>, overview |-> <<"drama">>,
       tagline |-> <<>>, popularity_tier |-> "High",
       popularity |-> <<30>>, vote_average |-> <<75>>, vote_count |-> <<>>,
       belongs_to_collection |-> <<>>]

\* three items alike in everything but the rating: 0.0 (a value that is
\* present), 8.2 and 6.0
M6 == [M3 EXCEPT !.id = 6, !.title = "Unrated", !.vote_average = <<0>>,
                 !.vote_count = <<200>>]

M7 == [M6 EXCEPT !.id = 7, !.title = "Acclaimed", !.vote_average = <<82>>]

M8 == [M6 EXCEPT !.id = 8, !.title = "Average", !.vote_average = <<60>>]

\* an item with more cast members, companies, countries and overview words
\* than its document takes
M9 == [M1 EXCEPT !.id = 3, !.title = "Epic",
                 !.cast = <<"Pacino", "Kilmer", "Bale", "Caine", "Berry", "Ledger">>,
                 !.production_companies = <<"Regency", "Warner", "Legendary", "Syncopy">>,
                 !.production_countries = <<"US", "UK", "FR">>,
                 !.overview = [i \in 1..151 |-> IF i <= 150 THEN "Thief" ELSE "cop"]]

\* an item whose overview is a word that is a genre of M1
M10 == [M3 EXCEPT !.title = "Stage", !.overview = <<"Drama">>]

\* six items with few attributes.  W3 and W4 differ in director, studio and
\* collection only, and each of the two directors has made one more film (W2,
\* W5), so that the two are equally similar to any item by another director.
Other == [id |-> 99, name |-> "Other"]

W1 == [id |-> 1, title |-> "Begins", year |-> 2005,
       genres |-> <<"Action">>, director |-> "Nolan", keywords |-> <<"hero">>,
       cast |-> <<>>, production_companies |-> <<>>, certification |-> "",
       decade |-> "2000s", original_language |-> "", production_countries |-> <<>>,
       overview |-> <<>>, tagline |-> <<>>, popularity_tier |-> "High",
       popularity |-> <<30>>, vote_average |-> <<70>>, vote_count |-> <<200>>,
       belongs_to_collection |-> <<Batman>>]

W2 == [W1 EXCEPT !.id = 2, !.title = "Returns", !.director = "Burton",
                 !.keywords = <<>>, !.belongs_to_collection = <<>>]

W3 == [W1 EXCEPT !.id = 3, !.title = "Batman", !.director = "Burton",
                 !.keywords = <<>>, !.production_companies = <<"Warner">>,
                 !.vote_average = <<60>>]

W4 == [W3 EXCEPT !.id = 4, !.title = "Forever", !.director = "Schumacher",
                 !.production_companies = <<"Regency">>,
                 !.belongs_to_collection = <<Other>>]

W5 == [W1 EXCEPT !.id = 5, !.title = "Client", !.year = 1994, !.decade = "1990s",
                 !.genres = <<"Drama">>, !.director = "Schumacher",
                 !.keywords = <<>>, !.belongs_to_collection = <<>>]

W6 == [W5 EXCEPT !.id = 6, !.title = "Insider", !.director = "Mann"]

\* an item of the enriched file that carries no "id" key
WithoutId(m) == [x \in DOMAIN m \ {"id"} |-> m[x]]

\* the contents of movies_enriched.json: a list of items, each with or
\* without an id of its own; nothing keeps two items from carrying the same id
EnrichedFiles ==
    {<<>>, <<M1, M2, M3>>, <<M1, M2, M3, M4>>, <<M5, M2>>, <<M2, WithoutId(M1)>>,
     <<[M1 EXCEPT !.id = 2], M2, M4>>, <<M1, M6, M7, M8>>, <<M1, M9>>, <<M1, M10>>,
     <<[W3 EXCEPT !.id = 5], W5, W2, W6>>,
     <<W1, W2, W3, W4, W5, W6>>}

\* build_dataset: an item without id gets its position (from 1) as id, an
\* item with an id keeps it
BuildDataset(file) ==
    [i \in DOMAIN file |->
        IF "id" \in DOMAIN file[i]
        THEN file[i]
        ELSE [x \in DOMAIN file[i] \cup {"id"} |-> IF x = "id" THEN i ELSE file[i][x]]]

\* the catalogs a recommender is built over
Catalogs == {BuildDataset(file) : file \in EnrichedFiles}

\* PYTHONHASHSEED of the process: it decides the order in which a set of
\* strings is enumerated
Seeds == {0, 1}

(***************************************************************************)
(* Strings.                                                                *)
(***************************************************************************)
LowerTable ==
    [Crime |-> "crime", Drama |-> "drama", Action |-> "action",
     Mann |-> "mann", Nolan |-> "nolan", Pitof |-> "pitof",
     Burton |-> "burton", Schumacher |-> "schumacher",
     Desconhecido |-> "desconhecido",
     Pacino |-> "pacino", Kilmer |-> "kilmer", Bale |-> "bale",
     Caine |-> "caine", Berry |-> "berry", Ledger |-> "ledger",
     Regency |-> "regency", Warner |-> "warner", Legendary |-> "legendary",
     Syncopy |-> "syncopy", R |-> "r", PG |-> "pg",
     US |-> "us", UK |-> "uk", FR |-> "fr", Thief |-> "thief",
     Viral |-> "viral", High |-> "high", Medium |-> "medium", Low |-> "low"]

\* str.lower()
Lower(w) == IF w \in DOMAIN LowerTable THEN LowerTable[w] ELSE w

LowerAll(ws) == [i \in DOMAIN ws |-> Lower(ws[i])]

\* the strings that are put in order, in the order of Python's str comparison
\* (code points: capitals come before small letters)
CodePointOrder ==
    <<"Action", "Bale", "Berry", "Caine", "Crime", "Drama", "Kilmer", "Ledger",
      "Legendary", "Pacino", "Regency", "Syncopy", "Warner", "bank", "chaos",
      "heist", "hero", "joker", "night", "police">>

StrRank(w) == CHOOSE i \in DOMAIN CodePointOrder : CodePointOrder[i] = w

\* sorted(S), S a set of strings
RECURSIVE Sorted(_)
Sorted(S) ==
    IF S = {} THEN <<>>
    ELSE LET w == CHOOSE x \in S : \A y \in S : StrRank(x) <= StrRank(y)
         IN <<w>> \o Sorted(S \ {w})

Reverse(s) == [i \in DOMAIN s |-> s[Len(s) + 1 - i]]

\* list(S), S a set of strings: the order is that of the hash table, which the
\* hash seed of the process decides
SetToList(S, seed) == IF seed = 0 THEN Sorted(S) ELSE Reverse(Sorted(S))

(***************************************************************************)
(* Feature Text Synthesizer.                                               *)
(***************************************************************************)
\* _normalize_text: strip, lower, remove "."; a single word
NormalizeText(w) == IF w = "" THEN <<>> ELSE <<Lower(w)>>

\* _extract_overview: the first MAX_OVERVIEW_WORDS words, lower-cased
ExtractOverview(movie) ==
    LET overview == Get(movie, "overview", Get(movie, "description", <<>>))
    IN LowerAll(Take(overview, MAX_OVERVIEW_WORDS))

\* _repeat_text: the words of text, weight times
RECURSIVE RepeatText(_, _)
RepeatText(text, weight) ==
    IF weight <= 0 THEN <<>> ELSE text \o RepeatText(text, weight - 1)

\* a bug: every cast member is taken
MovieToTextAllCast(movie) ==
    LET genres == LowerAll(Get(movie, "genres", <<>>))
        director == NormalizeText(Get(movie, "director", ""))
        keywords == LowerAll(Get(movie, "keywords", <<>>))
        cast == LowerAll(Get(movie, "cast", <<>>))
        companies == LowerAll(Take(Get(movie, "production_companies", <<>>), MAX_COMPANIES))
        certification == NormalizeText(Get(movie, "certification", ""))
        decade == NormalizeText(Get(movie, "decade", ""))
        original_language == NormalizeText(Get(movie, "original_language", ""))
        countries == LowerAll(Take(Get(movie, "production_countries", <<>>), MAX_COUNTRIES))
        overview_text == ExtractOverview(movie)
        tagline == LowerAll(Get(movie, "tagline", <<>>))
        popularity_tier == NormalizeText(Get(movie, "popularity_tier", ""))
    IN    <<"generos">> \o RepeatText(genres, WEIGHT_GENRES)
       \o <<"keywords">> \o RepeatText(keywords, WEIGHT_KEYWORDS)
       \o <<"diretor">> \o RepeatText(director, WEIGHT_DIRECTOR)
       \o <<"elenco">> \o RepeatText(cast, WEIGHT_CAST)
       \o <<"empresas">> \o companies
       \o <<"certificacao">> \o RepeatText(certification, WEIGHT_CERTIFICATION)
       \o <<"decada">> \o decade
       \o <<"idioma">> \o original_language
       \o <<"paises">> \o countries
       \o <<"popularidade">> \o popularity_tier
       \o <<"tagline">> \o tagline
       \o <<"sinopse">> \o overview_text

\* _movie_to_text: the document of a movie, as the words TfidfVectorizer sees
\* ("generos:drama" is the two words generos and drama to its tokenizer)
MovieToText(movie) ==
    LET genres == LowerAll(Get(movie, "genres", <<>>))
        director == NormalizeText(Get(movie, "director", ""))
        keywords == LowerAll(Get(movie, "keywords", <<>>))
        cast == LowerAll(Take(Get(movie, "cast", <<>>), MAX_CAST_MEMBERS))
        companies == LowerAll(Take(Get(movie, "production_companies", <<>>), MAX_COMPANIES))
        certification == NormalizeText(Get(movie, "certification", ""))
        decade == NormalizeText(Get(movie, "decade", ""))
        original_language == NormalizeText(Get(movie, "original_language", ""))
        countries == LowerAll(Take(Get(movie, "production_countries", <<>>), MAX_COUNTRIES))
        overview_text == ExtractOverview(movie)
        tagline == LowerAll(Get(movie, "tagline", <<>>))
        popularity_tier == NormalizeText(Get(movie, "popularity_tier", ""))
    IN    <<"generos">> \o RepeatText(genres, WEIGHT_GENRES)
       \o <<"keywords">> \o RepeatText(keywords, WEIGHT_KEYWORDS)
       \o <<"diretor">> \o RepeatText(director, WEIGHT_DIRECTOR)
       \o <<"elenco">> \o RepeatText(cast, WEIGHT_CAST)
       \o <<"empresas">> \o companies
       \o <<"certificacao">> \o RepeatText(certification, WEIGHT_CERTIFICATION)
       \o <<"decada">> \o decade
       \o <<"idioma">> \o original_language
       \o <<"paises">> \o countries
       \o <<"popularidade">> \o popularity_tier
       \o <<"tagline">> \o tagline
       \o <<"sinopse">> \o overview_text

(***************************************************************************)
(* Vector Space Model: TfidfVectorizer() with its defaults, and            *)
(* cosine_similarity.  A vector is a function from the vocabulary to       *)
(* fixed-point numbers.                                                    *)
(***************************************************************************)
\* units of a vector component to 1.0
VecScale == 1000
\* units of a similarity or score to 1.0
Scale == 100000

\* words of one character are no tokens (token_pattern \w\w+)
ShortWords == {"r"}

Tokens(doc) == SelectIn(doc, Range(doc) \ ShortWords)

Vocabulary(corpus) == UNION {Range(Tokens(corpus[i])) : i \in DOMAIN corpus}

TermCount(doc, t) == Cardinality({j \in DOMAIN doc : doc[j] = t})

DocFreq(corpus, t) == Cardinality({i \in DOMAIN corpus : t \in Range(corpus[i])})

\* 100 * (ln((1 + n) / (1 + df)) + 1), rounded: IdfTable[n][df]
IdfTable ==
    << <<100>>, <<141, 100>>, <<169, 129, 100>>, <<192, 151, 122, 100>>,
       <<210, 169, 141, 118, 100>>, <<225, 185, 156, 134, 115, 100>> >>

Idf(corpus, t) == IdfTable[Len(corpus)][DocFreq(corpus, t)]

Dot(u, v) == SumSet([t \in DOMAIN u |-> u[t] * v[t]], DOMAIN u)

Norm(v) == Isqrt(Dot(v, v))

\* v / |v|, in units of VecScale (a zero vector is left as it is)
Normalize(v) ==
    LET nv == Norm(v)
    IN [t \in DOMAIN v |-> IF nv = 0 THEN 0 ELSE (v[t] * VecScale) \div nv]

\* fit_transform: one l2-normalized tf-idf row per document
FitTransform(corpus) ==
    LET V == Vocabulary(corpus)
    IN [i \in DOMAIN corpus |->
          Normalize([t \in V |-> TermCount(corpus[i], t) * Idf(corpus, t)])]

\* a bug: an empty vocabulary is accepted
EmptyVocabularyAccepted(corpus) == FALSE

\* fit_transform raises ValueError("empty vocabulary") when no document has a token
EmptyVocabulary(corpus) == Vocabulary(corpus) = {}

\* cosine_similarity(u, v) of two vectors, in units of Scale
Cosine(u, v) ==
    LET nu == Norm(u)
        nv == Norm(v)
    IN IF nu = 0 \/ nv = 0 THEN 0
       ELSE (((Dot(u, v) * (Scale \div VecScale)) \div nu) * VecScale) \div nv

\* score * percent / 100, rounded down
Mul(score, percent) == (score * percent) \div 100


(***************************************************************************)
(* State.                                                                  *)
(***************************************************************************)
\* the requests that may be in progress at once
Slots == {1, 2}

VARIABLES
    phase,          \* "new", "ready" (a recommender was built), "failed" (__init__ raised)
    hashseed,       \* the hash seed of the process
    movies,         \* self.movies
    id_to_idx,      \* self._id_to_idx
    tfidf,          \* self._tfidf
    pc,             \* per request: where the call of recommend is
    liked_ids,      \* per request: argument
    disliked_ids,   \* per request: argument
    k,              \* per request: argument
    candidates,     \* per request: local, catalog positions
    sims,           \* per request: local, one score per catalog position
    diverse_recs,   \* per request: local, the re-ranked list
    result,         \* per request: the list returned
    err             \* per request: the exception raised, "" if none

VARIABLES
    db,             \* the InMemoryDatabase: users, next_id, username_index, email_index
    tokens,         \* TokenManager.tokens: token -> (user_id, expiry)
    now,            \* datetime.now(), in hours
    ret,            \* the last call of the store or of the token manager, and its value
    issued,         \* history: token -> the user id create_token was called with, and
                    \*   which of the accounts ever created had that id then
    dead,           \* history: the tokens revoked or found expired
    created,        \* history: the ids create_user has handed out, in order
    last_fb,        \* history: <<user, movie>> -> the last feedback, "" if none or removed
    inflight,       \* per worker thread: the /feedback request between its two statements
    response        \* the last /recommendations response

store == <<db, tokens, now, ret, issued, dead, created, last_fb, inflight, response>>

index == <<movies, id_to_idx, tfidf>>

locals == <<pc, liked_ids, disliked_ids, k, candidates, sims, diverse_recs, result, err>>

vars == <<phase, hashseed, movies, id_to_idx, tfidf, pc, liked_ids, disliked_ids, k,
          candidates, sims, diverse_recs, result, err, store>>

CatalogIds == {movies[i].id : i \in DOMAIN movies}

(***************************************************************************)
(* Catalog Index.                                                          *)
(***************************************************************************)
\* {m["id"]: idx for idx, m in enumerate(movies)}: a later item with the same
\* id replaces an earlier one
IdToIdx(ms) ==
    [id \in {ms[i].id : i \in DOMAIN ms} |->
        CHOOSE i \in DOMAIN ms : ms[i].id = id /\ \A j \in DOMAIN ms : ms[j].id = id => j <= i]

\* the position a dict lookup raised KeyError instead of
KeyError == 0

\* a bug: the test "lid in self._id_to_idx" is left out
KnownAlways(lid) == TRUE

\* lid in self._id_to_idx
Known(lid) == lid \in DOMAIN id_to_idx

\* self._id_to_idx[lid]
Lookup(lid) == IF lid \in DOMAIN id_to_idx THEN id_to_idx[lid] ELSE KeyError

(***************************************************************************)
(* Scoring Engine.                                                         *)
(***************************************************************************)
\* a bug: only the liked items are excluded
ExcludedLikedOnly(m, liked, disliked) == m.id \in Range(liked)

\* a bug: only the disliked items are excluded
ExcludedDislikedOnly(m, liked, disliked) == m.id \in Range(disliked)

\* a bug: nothing is excluded
ExcludedNever(m, liked, disliked) == FALSE

\* an item is no candidate when its id is liked or disliked
Excluded(m, liked, disliked) == m.id \in Range(liked) \/ m.id \in Range(disliked)

\* the candidates, as catalog positions in catalog order
Candidates(liked, disliked) ==
    SelectSeq([i \in 1..Len(movies) |-> i],
              LAMBDA i : ~Excluded(movies[i], liked, disliked))

\* the request takes the cold-start path
IsColdStart(liked) == liked = <<>>

\* an optional number, 0 when it is unknown
OrZero(m, key) == LET v == Get(m, key, <<>>) IN IF v = <<>> THEN 0 ELSE v[1]

ColdStartKey(m) == <<OrZero(m, "popularity"), OrZero(m, "vote_average"), Get(m, "year", 0)>>

\* a bug: a cold-start recommendation is given the score 1.0
ColdStartScoreOne == Scale

\* the sentinel score of a cold-start recommendation (0.0)
ColdStartScore == 0

ColdStartReason(m) ==
    [kind |-> "popular", anchor |-> "", reasons |-> <<>>, quality |-> Get(m, "popularity", <<>>)]

\* _get_cold_start_recommendations
GetColdStartRecommendations(cands, kk) ==
    LET ordered == SortDesc([i \in DOMAIN cands |->
                       [pos |-> cands[i], key |-> ColdStartKey(movies[cands[i]])]])
        first == Take(ordered, kk)
    IN [i \in DOMAIN first |->
          [item |-> first[i].pos, score |-> ColdStartScore,
           reason |-> ColdStartReason(movies[first[i].pos])]]

\* a bug: an unknown id is given the first position (dict.get(lid, 0))
LikedIdxDefault(liked) ==
    [i \in DOMAIN liked |-> IF Known(liked[i]) THEN Lookup(liked[i]) ELSE 1]

\* [self._id_to_idx[lid] for lid in liked_ids if lid in self._id_to_idx]
LikedIdx(liked) ==
    LET kept == SelectSeq(liked, LAMBDA lid : Known(lid))
    IN [i \in DOMAIN kept |-> Lookup(kept[i])]

\* self._tfidf[liked_idx].mean(axis=0)
UserVec(liked_idx) ==
    [t \in DOMAIN tfidf[1] |->
        SumSet([i \in DOMAIN liked_idx |-> tfidf[liked_idx[i]][t]], DOMAIN liked_idx)
            \div Len(liked_idx)]

\* cosine_similarity(user_vec, self._tfidf).ravel()
BaseSims(liked_idx) ==
    LET user_vec == UserVec(liked_idx)
    IN [j \in 1..Len(movies) |-> Cosine(user_vec, tfidf[j])]

\* a bug: an unknown disliked id dampens the first position (dict.get(did, 0))
RECURSIVE ApplyDislikePenaltyDefault(_, _)
ApplyDislikePenaltyDefault(s, disliked) ==
    IF disliked = <<>> THEN s
    ELSE LET did == Head(disliked)
             at == IF did \in DOMAIN id_to_idx THEN id_to_idx[did] ELSE 1
         IN ApplyDislikePenaltyDefault([s EXCEPT ![at] = Mul(@, DISLIKE_FACTOR)],
                                       Tail(disliked))

\* a bug: the position after that of the disliked item is dampened
RECURSIVE ApplyDislikePenaltyOffByOne(_, _)
ApplyDislikePenaltyOffByOne(s, disliked) ==
    IF disliked = <<>> THEN s
    ELSE LET did == Head(disliked)
             after == IF did \in DOMAIN id_to_idx
                      THEN [s EXCEPT ![(id_to_idx[did] % Len(s)) + 1] = Mul(@, DISLIKE_FACTOR)]
                      ELSE s
         IN ApplyDislikePenaltyOffByOne(after, Tail(disliked))

\* for did in disliked_ids: if did in self._id_to_idx: sims[idx] *= 0.1
RECURSIVE ApplyDislikePenalty(_, _)
ApplyDislikePenalty(s, disliked) ==
    IF disliked = <<>> THEN s
    ELSE LET did == Head(disliked)
             after == IF Known(did) /\ Lookup(did) \in DOMAIN s
                      THEN [s EXCEPT ![Lookup(did)] = Mul(@, DISLIKE_FACTOR)]
                      ELSE s
         IN ApplyDislikePenalty(after, Tail(disliked))

\* the dampening looks up an id that is not in the map
DislikePenaltyRaises(disliked) ==
    \E did \in Range(disliked) : Known(did) /\ Lookup(did) = KeyError

\* 1000 * ln(1 + popularity), rounded, of the popularities of the catalogs
Log1p == [p \in {10, 30, 50} |-> IF p = 10 THEN 2398 ELSE IF p = 30 THEN 3434 ELSE 3932]

\* 1 + log1p(popularity) / 40, in units of 1/1000
PopularityBoost(m) ==
    IF Truthy(Get(m, "popularity", <<>>))
    THEN 1000 + (Log1p[m.popularity[1]] \div BOOST_POPULARITY_SCALE)
    ELSE 1000

\* m.get("vote_count", 0) > 50 compares None with a number: TypeError
QualityRaises(m) ==
    Truthy(Get(m, "vote_average", <<>>)) /\ Get(m, "vote_count", <<0>>) = <<>>

QualityBoost(m) ==
    IF Truthy(Get(m, "vote_average", <<>>))
       /\ Get(m, "vote_count", <<0>>) # <<>>
       /\ Get(m, "vote_count", <<0>>)[1] > MIN_VOTES_FOR_QUALITY
    THEN LET rating == m.vote_average[1]
         IN IF rating >= RATING_THRESHOLD_EXCELLENT THEN BOOST_RATING_EXCELLENT
            ELSE IF rating >= RATING_THRESHOLD_VERY_GOOD THEN BOOST_RATING_VERY_GOOD
            ELSE IF rating >= RATING_THRESHOLD_GOOD THEN BOOST_RATING_GOOD
            ELSE IF rating >= RATING_THRESHOLD_DECENT THEN BOOST_RATING_DECENT
            ELSE IF rating < RATING_THRESHOLD_POOR THEN PENALTY_RATING_POOR
            ELSE NEUTRAL
    ELSE NEUTRAL

RecencyBoost(m) ==
    IF Get(m, "year", 0) = 0 THEN NEUTRAL
    ELSE LET age == CURRENT_YEAR - m.year
         IN IF age <= AGE_RECENT THEN BOOST_RECENT_MOVIES
            ELSE IF age <= AGE_MODERN THEN BOOST_MODERN_MOVIES
            ELSE IF age > AGE_CLASSIC THEN BOOST_CLASSICS
            ELSE NEUTRAL

CollectionBoost(m) ==
    IF Get(m, "belongs_to_collection", <<>>) # <<>> THEN BOOST_COLLECTION ELSE NEUTRAL

\* _apply_boosts: every position, candidate or not
ApplyBoosts(s) ==
    [i \in DOMAIN s |->
        LET m == movies[i]
        IN Mul(Mul(Mul((s[i] * PopularityBoost(m)) \div 1000, QualityBoost(m)),
                   RecencyBoost(m)), CollectionBoost(m))]

ApplyBoostsRaises == \E i \in DOMAIN movies : QualityRaises(movies[i])

\* the candidates with their scores, best first
Ranked(cands, s) ==
    SortDesc([i \in DOMAIN cands |->
                [pos |-> cands[i], score |-> s[cands[i]], key |-> <<s[cands[i]]>>]])


(***************************************************************************)
(* Diversity Re-ranker.                                                    *)
(***************************************************************************)
\* a bug: the director boost is given for a director already seen
DiversityBoostSeenDirector(m, seen_directors, seen_companies, seen_keywords, seen_decades) ==
    LET director == Get(m, "director", "")
        companies == Get(m, "production_companies", <<>>)
        keywords == Take(Get(m, "keywords", <<>>), 5)
        decade == Get(m, "decade", "")
        company_overlap == Range(companies) \cap seen_companies
        keyword_overlap == Range(keywords) \cap seen_keywords
        denom == Max(Len(keywords), 1)
    IN << IF director # "" /\ director \in seen_directors
          THEN DIVERSITY_BOOST_NEW_DIRECTOR ELSE NEUTRAL,
          IF companies = <<>> THEN NEUTRAL
          ELSE IF company_overlap = {} THEN DIVERSITY_BOOST_NEW_COMPANY
          ELSE IF 2 * Cardinality(company_overlap) < Cardinality(seen_companies)
          THEN DIVERSITY_BOOST_SOME_OVERLAP ELSE NEUTRAL,
          IF keywords = <<>> THEN NEUTRAL
          ELSE IF 10 * Cardinality(keyword_overlap) < KEYWORD_OVERLAP_LOW * denom
          THEN DIVERSITY_BOOST_NEW_KEYWORDS
          ELSE IF 10 * Cardinality(keyword_overlap) > KEYWORD_OVERLAP_HIGH * denom
          THEN DIVERSITY_PENALTY_KEYWORD_OVERLAP ELSE NEUTRAL,
          IF decade # "" /\ decade \notin seen_decades
          THEN DIVERSITY_BOOST_NEW_DECADE ELSE NEUTRAL >>

\* _calculate_diversity_boost: the four factors, each in percent
DiversityBoost(m, seen_directors, seen_companies, seen_keywords, seen_decades) ==
    LET director == Get(m, "director", "")
        companies == Get(m, "production_companies", <<>>)
        keywords == Take(Get(m, "keywords", <<>>), 5)
        decade == Get(m, "decade", "")
        company_overlap == Range(companies) \cap seen_companies
        keyword_overlap == Range(keywords) \cap seen_keywords
        denom == Max(Len(keywords), 1)
    IN << IF director # "" /\ director \notin seen_directors
          THEN DIVERSITY_BOOST_NEW_DIRECTOR ELSE NEUTRAL,
          IF companies = <<>> THEN NEUTRAL
          ELSE IF company_overlap = {} THEN DIVERSITY_BOOST_NEW_COMPANY
          ELSE IF 2 * Cardinality(company_overlap) < Cardinality(seen_companies)
          THEN DIVERSITY_BOOST_SOME_OVERLAP ELSE NEUTRAL,
          IF keywords = <<>> THEN NEUTRAL
          ELSE IF 10 * Cardinality(keyword_overlap) < KEYWORD_OVERLAP_LOW * denom
          THEN DIVERSITY_BOOST_NEW_KEYWORDS
          ELSE IF 10 * Cardinality(keyword_overlap) > KEYWORD_OVERLAP_HIGH * denom
          THEN DIVERSITY_PENALTY_KEYWORD_OVERLAP ELSE NEUTRAL,
          IF decade # "" /\ decade \notin seen_decades
          THEN DIVERSITY_BOOST_NEW_DECADE ELSE NEUTRAL >>

\* _calculate_genre_penalty
GenrePenalty(m, recommended_genres) ==
    LET common == Cardinality(Range(Get(m, "genres", <<>>)) \cap recommended_genres)
    IN IF common > 2 THEN GENRE_PENALTY_HIGH_OVERLAP
       ELSE IF common = 2 THEN GENRE_PENALTY_MEDIUM_OVERLAP
       ELSE IF common = 1 THEN GENRE_PENALTY_LOW_OVERLAP
       ELSE NEUTRAL

\* next((m for m in self.movies if m["id"] == lid), None), as <<>> or <<m>>
FirstWithId(lid) ==
    LET at == {i \in DOMAIN movies : movies[i].id = lid}
    IN IF at = {} THEN <<>>
       ELSE <<movies[CHOOSE i \in at : \A j \in at : i <= j]>>

\* _calculate_franchise_boost
FranchiseBoost(m, liked) ==
    LET collection == Get(m, "belongs_to_collection", <<>>)
    IN IF collection = <<>> THEN NEUTRAL
       ELSE IF \E x \in DOMAIN liked :
                 LET liked_movie == FirstWithId(liked[x])
                 IN /\ liked_movie # <<>>
                    /\ Get(liked_movie[1], "belongs_to_collection", <<>>) # <<>>
                    /\ collection[1].id = liked_movie[1].belongs_to_collection[1].id
            THEN BOOST_SAME_FRANCHISE
       ELSE NEUTRAL

RECURSIVE MulAll(_, _)
MulAll(score, factors) ==
    IF factors = <<>> THEN score ELSE MulAll(Mul(score, Head(factors)), Tail(factors))

\* the state of the re-ranking loop before any item is examined
NoneSeen ==
    [recs |-> <<>>, seen_directors |-> {}, seen_companies |-> {},
     recommended_genres |-> {}, seen_keywords |-> {}, seen_decades |-> {}]

\* a bug: the seen sets are updated before the factors of the item are computed
ExamineUpdateFirst(acc, entry, liked) ==
    LET m == movies[entry.pos]
        director == Get(m, "director", "")
        decade == Get(m, "decade", "")
        seen_directors == acc.seen_directors \cup (IF director # "" THEN {director} ELSE {})
        seen_companies == acc.seen_companies
                             \cup Range(Take(Get(m, "production_companies", <<>>), 2))
        recommended_genres == acc.recommended_genres \cup Range(Get(m, "genres", <<>>))
        seen_keywords == acc.seen_keywords \cup Range(Take(Get(m, "keywords", <<>>), 5))
        seen_decades == acc.seen_decades \cup (IF decade # "" THEN {decade} ELSE {})
        adjusted_score ==
            Mul(Mul(MulAll(entry.score,
                           DiversityBoost(m, seen_directors, seen_companies,
                                          seen_keywords, seen_decades)),
                    GenrePenalty(m, recommended_genres)), FranchiseBoost(m, liked))
    IN [recs |-> Append(acc.recs, [pos |-> entry.pos, adjusted |-> adjusted_score,
                                   score |-> entry.score, key |-> <<adjusted_score>>]),
        seen_directors |-> seen_directors, seen_companies |-> seen_companies,
        recommended_genres |-> recommended_genres, seen_keywords |-> seen_keywords,
        seen_decades |-> seen_decades]

\* one pass of the loop body: item i of ranked is examined
Examine(acc, entry, liked) ==
    LET m == movies[entry.pos]
        diversity_boost == DiversityBoost(m, acc.seen_directors, acc.seen_companies,
                                          acc.seen_keywords, acc.seen_decades)
        adjusted_score ==
            Mul(Mul(MulAll(entry.score, diversity_boost),
                    GenrePenalty(m, acc.recommended_genres)), FranchiseBoost(m, liked))
        director == Get(m, "director", "")
        decade == Get(m, "decade", "")
    IN [recs |-> Append(acc.recs, [pos |-> entry.pos, adjusted |-> adjusted_score,
                                   score |-> entry.score, key |-> <<adjusted_score>>]),
        seen_directors |-> acc.seen_directors \cup (IF director # "" THEN {director} ELSE {}),
        seen_companies |-> acc.seen_companies
                             \cup Range(Take(Get(m, "production_companies", <<>>), 2)),
        recommended_genres |-> acc.recommended_genres \cup Range(Get(m, "genres", <<>>)),
        seen_keywords |-> acc.seen_keywords \cup Range(Take(Get(m, "keywords", <<>>), 5)),
        seen_decades |-> acc.seen_decades \cup (IF decade # "" THEN {decade} ELSE {})]

\* a bug: the loop has no break, the whole ranked list is examined
RECURSIVE RerankLoopUnbounded(_, _, _, _, _)
RerankLoopUnbounded(ranked, i, liked, kk, acc) ==
    IF i > Len(ranked) THEN acc
    ELSE RerankLoopUnbounded(ranked, i + 1, liked, kk, Examine(acc, ranked[i], liked))

\* for m, score in ranked: ...; if len(diverse_recs) >= k * 3: break
RECURSIVE RerankLoop(_, _, _, _, _)
RerankLoop(ranked, i, liked, kk, acc) ==
    IF i > Len(ranked) THEN acc
    ELSE LET next == Examine(acc, ranked[i], liked)
         IN IF Len(next.recs) >= kk * 3 THEN next
            ELSE RerankLoop(ranked, i + 1, liked, kk, next)

\* a bug: the examined items are returned in the order of the ranked list
ApplyDiversityRerankingUnsorted(ranked, liked, kk) ==
    RerankLoop(ranked, 1, liked, kk, NoneSeen).recs

\* _apply_diversity_reranking
ApplyDiversityReranking(ranked, liked, kk) ==
    SortDesc(RerankLoop(ranked, 1, liked, kk, NoneSeen).recs)

(***************************************************************************)
(* Explanation Generator.                                                  *)
(***************************************************************************)
\* _analyze_shared_features
AnalyzeSharedFeatures(movie, reference) ==
    [genres |-> Sorted(Range(Get(movie, "genres", <<>>))
                         \cap Range(Get(reference, "genres", <<>>))),
     same_director |-> /\ Get(movie, "director", "") = Get(reference, "director", "")
                       /\ Get(movie, "director", "") # "",
     keywords |-> Range(Get(movie, "keywords", <<>>))
                    \cap Range(Get(reference, "keywords", <<>>)),
     cast |-> Range(Take(Get(movie, "cast", <<>>), 5))
                \cap Range(Take(Get(reference, "cast", <<>>), 5)),
     companies |-> Range(Get(movie, "production_companies", <<>>))
                     \cap Range(Get(reference, "production_companies", <<>>)),
     same_certification |-> /\ Get(movie, "certification", "") # ""
                            /\ Get(movie, "certification", "") = Get(reference, "certification", ""),
     same_decade |-> /\ Get(movie, "decade", "") # ""
                     /\ Get(movie, "decade", "") = Get(reference, "decade", ""),
     same_collection |-> /\ Get(movie, "belongs_to_collection", <<>>) # <<>>
                         /\ Get(reference, "belongs_to_collection", <<>>) # <<>>
                         /\ movie.belongs_to_collection[1].id
                              = reference.belongs_to_collection[1].id]

Reason(label, values) == <<[label |-> label, values |-> values]>>

\* a bug: the studio is tested before the genres
BuildReasonListStudioEarly(movie, features, seed) ==
    LET kws == SetToList(features.keywords, seed)
        actors == SetToList(features.cast, seed)
        studios == SetToList(features.companies, seed)
    IN    (IF features.same_collection
           THEN Reason("mesma franquia", <<movie.belongs_to_collection[1].name>>) ELSE <<>>)
       \o (IF features.same_director THEN Reason("diretor", <<movie.director>>) ELSE <<>>)
       \o (IF Len(kws) >= 3 THEN Reason("temas", Take(kws, 3))
           ELSE IF Len(kws) >= 2 THEN Reason("temas", Take(kws, 2))
           ELSE IF Len(kws) = 1 THEN Reason("tema", kws) ELSE <<>>)
       \o (IF Len(actors) >= 2 THEN Reason("elenco", Take(actors, 2))
           ELSE IF Len(actors) = 1 THEN Reason("ator", actors) ELSE <<>>)
       \o (IF studios # <<>> THEN Reason("estudio", Take(studios, 1)) ELSE <<>>)
       \o (IF Len(features.genres) >= 2 THEN Reason("generos", Take(features.genres, 2))
           ELSE IF Len(features.genres) = 1 THEN Reason("genero", features.genres) ELSE <<>>)
       \o (IF features.same_certification
           THEN Reason("classificacao", <<movie.certification>>) ELSE <<>>)
       \o (IF features.same_decade THEN Reason("epoca", <<movie.decade>>) ELSE <<>>)

\* _build_reason_list; list(set) enumerates the set in the order of the hash seed
BuildReasonList(movie, features, seed) ==
    LET kws == SetToList(features.keywords, seed)
        actors == SetToList(features.cast, seed)
        studios == SetToList(features.companies, seed)
    IN    (IF features.same_collection
           THEN Reason("mesma franquia", <<movie.belongs_to_collection[1].name>>) ELSE <<>>)
       \o (IF features.same_director THEN Reason("diretor", <<movie.director>>) ELSE <<>>)
       \o (IF Len(kws) >= 3 THEN Reason("temas", Take(kws, 3))
           ELSE IF Len(kws) >= 2 THEN Reason("temas", Take(kws, 2))
           ELSE IF Len(kws) = 1 THEN Reason("tema", kws) ELSE <<>>)
       \o (IF Len(actors) >= 2 THEN Reason("elenco", Take(actors, 2))
           ELSE IF Len(actors) = 1 THEN Reason("ator", actors) ELSE <<>>)
       \o (IF Len(features.genres) >= 2 THEN Reason("generos", Take(features.genres, 2))
           ELSE IF Len(features.genres) = 1 THEN Reason("genero", features.genres) ELSE <<>>)
       \o (IF features.same_certification
           THEN Reason("classificacao", <<movie.certification>>) ELSE <<>>)
       \o (IF features.same_decade THEN Reason("epoca", <<movie.decade>>) ELSE <<>>)
       \o (IF studios # <<>> THEN Reason("estudio", Take(studios, 1)) ELSE <<>>)

\* _format_quality_info: <<>>, <<rating>> or <<rating, vote_count>>
FormatQualityInfo(movie) ==
    LET rating == Get(movie, "vote_average", <<>>)
        vote_count == Get(movie, "vote_count", <<0>>)
    IN IF ~Truthy(rating) THEN <<>>
       ELSE IF vote_count = <<>> \/ vote_count[1] <= MIN_VOTES_FOR_QUALITY THEN <<>>
       ELSE IF rating[1] >= RATING_THRESHOLD_EXCELLENT THEN <<rating[1], vote_count[1]>>
       ELSE IF rating[1] >= RATING_THRESHOLD_GOOD THEN <<rating[1]>>
       ELSE <<>>

\* int(sims.argmax()): the first position of the largest value
ArgMax(s) == CHOOSE i \in DOMAIN s : \A j \in DOMAIN s : s[j] < s[i] \/ (s[j] = s[i] /\ i <= j)

GenericReason == [kind |-> "similar", anchor |-> "", reasons |-> <<>>, quality |-> <<>>]

\* a bug: the anchor is the catalog item most similar to the movie, liked or not
ExplainAnyAnchor(movie, liked, seed) ==
    LET midx == Lookup(movie.id)
        pair == [i \in DOMAIN movies |-> Cosine(tfidf[midx], tfidf[i])]
        best_movie == movies[ArgMax(pair)]
    IN [kind |-> "anchor", anchor |-> best_movie.title,
        reasons |-> Take(BuildReasonList(movie, AnalyzeSharedFeatures(movie, best_movie), seed), 4),
        quality |-> FormatQualityInfo(movie)]

\* _explain
Explain(movie, liked, seed) ==
    LET midx == Lookup(movie.id)
        liked_idx == LikedIdx(liked)
    IN IF liked_idx = <<>> THEN GenericReason
       ELSE LET pair == [i \in DOMAIN liked_idx |-> Cosine(tfidf[midx], tfidf[liked_idx[i]])]
                best_movie == movies[liked_idx[ArgMax(pair)]]
                features == AnalyzeSharedFeatures(movie, best_movie)
            IN [kind |-> "anchor", anchor |-> best_movie.title,
                reasons |-> Take(BuildReasonList(movie, features, seed), 4),
                quality |-> FormatQualityInfo(movie)]

\* the triples returned: the first k re-ranked items, each with the score it
\* had before the re-ranking and its explanation
Emit(diverse, liked, kk, seed) ==
    LET first == Take(diverse, kk)
    IN [i \in DOMAIN first |->
          [item |-> first[i].pos, score |-> first[i].score,
           reason |-> Explain(movies[first[i].pos], liked, seed)]]

\* the explanation step looks up an id that is not in the map
ExplainRaises(liked) == \E lid \in Range(liked) : Known(lid) /\ Lookup(lid) = KeyError

(***************************************************************************)
(* recommend(liked_ids, disliked_ids, k) as one function of the index.     *)
(***************************************************************************)
Returned(list) == [raised |-> "", list |-> list]

Raised(e) == [raised |-> e, list |-> <<>>]

Recommend(liked, disliked, kk, seed) ==
    LET cands == Candidates(liked, disliked)
    IN IF IsColdStart(liked) THEN Returned(GetColdStartRecommendations(cands, kk))
       ELSE IF \E lid \in Range(liked) : Known(lid) /\ Lookup(lid) = KeyError
            THEN Raised("KeyError")
       ELSE IF LikedIdx(liked) = <<>> THEN Returned(<<>>)
       ELSE IF DislikePenaltyRaises(disliked) THEN Raised("KeyError")
       ELSE IF ApplyBoostsRaises THEN Raised("TypeError")
       ELSE LET boosted == ApplyBoosts(ApplyDislikePenalty(BaseSims(LikedIdx(liked)), disliked))
                diverse == ApplyDiversityReranking(Ranked(cands, boosted), liked, kk)
            IN Returned(Emit(diverse, liked, kk, seed))


(***************************************************************************)
(* The user store (database.py) and the token manager (auth.py), as        *)
(* functions of their state.  A dict is a function, None is NoneValue.     *)
(***************************************************************************)
\* largest number of users created
MaxUsers == 2
\* largest number of tokens created
MaxTokens == 2
\* the clock stops here
MaxNow == 170

\* TokenManager.token_expiry_hours
TOKEN_EXPIRY_HOURS == 168

\* None; no user id and no token is 0
NoneValue == 0

\* d[key] = v
Put(d, key, v) == [x \in DOMAIN d \cup {key} |-> IF x = key THEN v ELSE d[x]]

\* del d[key]
Del(d, key) == [x \in DOMAIN d \ {key} |-> d[x]]

\* list.remove(x): the first occurrence goes
RemoveFirst(list, x) ==
    LET i == CHOOSE j \in DOMAIN list : list[j] = x /\ \A h \in 1..(j - 1) : list[h] # x
    IN SubSeq(list, 1, i - 1) \o SubSeq(list, i + 1, Len(list))

\* if x in list: list.remove(x)
Discard(list, x) == IF x \in Range(list) THEN RemoveFirst(list, x) ELSE list

\* a bug: the id is appended whether it is in the list or not
AppendAlways(list, x) == Append(list, x)

\* if x not in list: list.append(x)
AppendNew(list, x) == IF x \notin Range(list) THEN Append(list, x) ELSE list

\* pwd_context.hash and pwd_context.verify
Hash(password) == <<"bcrypt", password>>

VerifyPassword(plain_password, hashed_password) == hashed_password = Hash(plain_password)

\* InMemoryDatabase()
NewDatabase ==
    [users |-> <<>>, next_id |-> 1, username_index |-> <<>>, email_index |-> <<>>]

\* User(id, username, email, password_hash)
User(id, username, email, password_hash) ==
    [id |-> id, username |-> username, email |-> email, password_hash |-> password_hash,
     liked_movies |-> <<>>, disliked_movies |-> <<>>, ratings |-> <<>>]

\* a bug: the smallest id that no user has
SmallestFreeId(d) == CHOOSE id \in 1..(d.next_id) : id \notin DOMAIN d.users /\ \A h \in 1..(id - 1) : h \in DOMAIN d.users

\* user_id = self.next_id
NewUserId(d) == d.next_id

\* create_user: the store after the call and the id of the new user, or None
CreateUser(d, username, email, password) ==
    IF username \in DOMAIN d.username_index THEN [db |-> d, value |-> NoneValue]
    ELSE IF email \in DOMAIN d.email_index THEN [db |-> d, value |-> NoneValue]
    ELSE LET user_id == NewUserId(d)
         IN [db |-> [users |-> Put(d.users, user_id,
                                   User(user_id, username, email, Hash(password))),
                     next_id |-> d.next_id + 1,
                     username_index |-> Put(d.username_index, username, user_id),
                     email_index |-> Put(d.email_index, email, user_id)],
             value |-> user_id]

\* get_user_by_id: the id when the user exists, else None
GetUserById(d, user_id) == IF user_id \in DOMAIN d.users THEN user_id ELSE NoneValue

\* get_user_by_username
GetUserByUsername(d, username) ==
    IF username \in DOMAIN d.username_index
    THEN GetUserById(d, d.username_index[username])
    ELSE NoneValue

\* authenticate
Authenticate(d, username, password) ==
    LET user_id == GetUserByUsername(d, username)
    IN IF user_id = NoneValue THEN NoneValue
       ELSE IF ~VerifyPassword(password, d.users[user_id].password_hash) THEN NoneValue
       ELSE user_id

\* update_user, the username part: the store after it, and whether the call
\* has returned None in it
UpdateUsername(d, user_id, kwargs) ==
    LET user == d.users[user_id]
    IN IF "username" \notin DOMAIN kwargs \/ kwargs.username = user.username
       THEN [db |-> d, returned |-> FALSE]
       ELSE IF kwargs.username \in DOMAIN d.username_index
       THEN [db |-> d, returned |-> TRUE]
       ELSE [db |-> [d EXCEPT
                       !.username_index = Put(Del(d.username_index, user.username),
                                              kwargs.username, user_id),
                       !.users = Put(d.users, user_id,
                                     [user EXCEPT !.username = kwargs.username])],
             returned |-> FALSE]

\* update_user, the email part
UpdateEmail(d, user_id, kwargs) ==
    LET user == d.users[user_id]
    IN IF "email" \notin DOMAIN kwargs \/ kwargs.email = user.email
       THEN [db |-> d, returned |-> FALSE]
       ELSE IF kwargs.email \in DOMAIN d.email_index
       THEN [db |-> d, returned |-> TRUE]
       ELSE [db |-> [d EXCEPT
                       !.email_index = Put(Del(d.email_index, user.email),
                                           kwargs.email, user_id),
                       !.users = Put(d.users, user_id,
                                     [user EXCEPT !.email = kwargs.email])],
             returned |-> FALSE]

\* update_user, the password part
UpdatePassword(d, user_id, kwargs) ==
    IF "password" \notin DOMAIN kwargs THEN d
    ELSE [d EXCEPT !.users = Put(d.users, user_id,
                                 [d.users[user_id] EXCEPT
                                     !.password_hash = Hash(kwargs.password)])]

\* update_user: the username, then the email, then the password; a name that
\* is taken ends the call with None, after what was written before it
UpdateUser(d, user_id, kwargs) ==
    IF GetUserById(d, user_id) = NoneValue THEN [db |-> d, value |-> NoneValue]
    ELSE LET named == UpdateUsername(d, user_id, kwargs)
         IN IF named.returned THEN [db |-> named.db, value |-> NoneValue]
            ELSE LET mailed == UpdateEmail(named.db, user_id, kwargs)
                 IN IF mailed.returned THEN [db |-> mailed.db, value |-> NoneValue]
                    ELSE [db |-> UpdatePassword(mailed.db, user_id, kwargs),
                          value |-> user_id]

\* delete_user: the store after the call, and True (1) or False (0)
DeleteUser(d, user_id) ==
    IF GetUserById(d, user_id) = NoneValue THEN [db |-> d, value |-> 0]
    ELSE [db |-> [d EXCEPT
                    !.username_index = Del(d.username_index, d.users[user_id].username),
                    !.email_index = Del(d.email_index, d.users[user_id].email),
                    !.users = Del(d.users, user_id)],
          value |-> 1]

\* add_like, first statement: the movie leaves the disliked list
AddLikeRemove(d, user_id, movie_id) ==
    IF GetUserById(d, user_id) = NoneValue THEN d
    ELSE [d EXCEPT !.users[user_id].disliked_movies = Discard(@, movie_id)]

\* add_like, second statement: the movie joins the liked list
AddLikeAppend(d, user_id, movie_id) ==
    IF GetUserById(d, user_id) = NoneValue THEN d
    ELSE [d EXCEPT !.users[user_id].liked_movies = AppendNew(@, movie_id)]

\* add_like
AddLike(d, user_id, movie_id) ==
    AddLikeAppend(AddLikeRemove(d, user_id, movie_id), user_id, movie_id)

\* add_dislike, first statement: the movie leaves the liked list
AddDislikeRemove(d, user_id, movie_id) ==
    IF GetUserById(d, user_id) = NoneValue THEN d
    ELSE [d EXCEPT !.users[user_id].liked_movies = Discard(@, movie_id)]

\* add_dislike, second statement: the movie joins the disliked list
AddDislikeAppend(d, user_id, movie_id) ==
    IF GetUserById(d, user_id) = NoneValue THEN d
    ELSE [d EXCEPT !.users[user_id].disliked_movies = AppendNew(@, movie_id)]

\* add_dislike
AddDislike(d, user_id, movie_id) ==
    AddDislikeAppend(AddDislikeRemove(d, user_id, movie_id), user_id, movie_id)

\* add_rating
AddRating(d, user_id, movie_id, rating) ==
    IF GetUserById(d, user_id) # NoneValue /\ 1 <= rating /\ rating <= 5
    THEN [d EXCEPT !.users[user_id].ratings = Put(@, movie_id, rating)]
    ELSE d

\* remove_feedback
RemoveFeedback(d, user_id, movie_id) ==
    IF GetUserById(d, user_id) = NoneValue THEN d
    ELSE [d EXCEPT !.users[user_id].liked_movies = Discard(@, movie_id),
                   !.users[user_id].disliked_movies = Discard(@, movie_id),
                   !.users[user_id].ratings = Del(@, movie_id)]

\* create_token: self.tokens[token] = (user_id, expiry)
CreateToken(tk, token, user_id, time) ==
    Put(tk, token, [user_id |-> user_id, expiry |-> time + TOKEN_EXPIRY_HOURS])

\* validate_token: the tokens after the call and the user id, or None; a token
\* found expired is deleted
ValidateToken(tk, token, time) ==
    IF token \notin DOMAIN tk THEN [tokens |-> tk, value |-> NoneValue]
    ELSE IF time > tk[token].expiry THEN [tokens |-> Del(tk, token), value |-> NoneValue]
    ELSE [tokens |-> tk, value |-> tk[token].user_id]

\* a bug: the token is kept
RevokeTokenKept(tk, token) == tk

\* revoke_token
RevokeToken(tk, token) == IF token \in DOMAIN tk THEN Del(tk, token) ELSE tk

\* cleanup_expired
CleanupExpired(tk, time) == [t \in {x \in DOMAIN tk : ~(time > tk[x].expiry)} |-> tk[t]]

\* what get_current_user answers with status 401
TokenInvalid == -1

UserNotFound == -2

\* get_current_user: the tokens after the call, and the user or the 401 raised
GetCurrentUser(d, tk, token, time) ==
    LET valid == ValidateToken(tk, token, time)
    IN [tokens |-> valid.tokens,
        value |-> IF valid.value = NoneValue THEN TokenInvalid
                  ELSE IF GetUserById(d, valid.value) = NoneValue THEN UserNotFound
                  ELSE valid.value]


(***************************************************************************)
(* The program: the recommender is built once, then recommend is called.   *)
(* A call runs step by step, so that calls in different slots interleave.  *)
(***************************************************************************)
Init ==
    /\ phase = "new"
    /\ hashseed \in Seeds
    /\ movies = <<>>
    /\ id_to_idx = <<>>
    /\ tfidf = <<>>
    /\ pc = [s \in Slots |-> "idle"]
    /\ liked_ids = [s \in Slots |-> <<>>]
    /\ disliked_ids = [s \in Slots |-> <<>>]
    /\ k = [s \in Slots |-> 0]
    /\ candidates = [s \in Slots |-> <<>>]
    /\ sims = [s \in Slots |-> <<>>]
    /\ diverse_recs = [s \in Slots |-> <<>>]
    /\ result = [s \in Slots |-> <<>>]
    /\ err = [s \in Slots |-> ""]
    /\ db = NewDatabase
    /\ tokens = <<>>
    /\ now = 0
    /\ ret = [op |-> "", user |-> 0, movie |-> 0, token |-> 0, value |-> 0]
    /\ issued = <<>>
    /\ dead = {}
    /\ created = <<>>
    /\ last_fb = [x \in (1..MaxUsers) \X {1, 2} |-> ""]
    /\ inflight = [w \in {1} |-> [action |-> "", user |-> 0, movie |-> 0]]
    /\ response = [user |-> 0, items |-> {}, held |-> {}]

\* ContentBasedRecommender(ms)
Construct(ms) ==
    /\ phase = "new"
    /\ movies' = ms
    /\ id_to_idx' = IdToIdx(ms)
    /\ LET corpus == [i \in DOMAIN ms |-> MovieToText(ms[i])]
       IN IF EmptyVocabulary(corpus)
          THEN phase' = "failed" /\ tfidf' = <<>>
          ELSE phase' = "ready" /\ tfidf' = FitTransform(corpus)
    /\ UNCHANGED <<hashseed, locals>>
    /\ UNCHANGED store

\* the call returns list
Finish(s, list) ==
    /\ pc' = [pc EXCEPT ![s] = "done"]
    /\ result' = [result EXCEPT ![s] = list]
    /\ UNCHANGED err

\* the call raises e
Raise(s, e) ==
    /\ pc' = [pc EXCEPT ![s] = "raised"]
    /\ err' = [err EXCEPT ![s] = e]
    /\ UNCHANGED result

\* recommend is entered: the sets of liked and disliked ids and the candidates
Call(s, liked, disliked, kk) ==
    /\ phase = "ready"
    /\ pc[s] = "idle"
    /\ pc' = [pc EXCEPT ![s] = "called"]
    /\ liked_ids' = [liked_ids EXCEPT ![s] = liked]
    /\ disliked_ids' = [disliked_ids EXCEPT ![s] = disliked]
    /\ k' = [k EXCEPT ![s] = kk]
    /\ candidates' = [candidates EXCEPT ![s] = Candidates(liked, disliked)]
    /\ UNCHANGED <<phase, hashseed, index, sims, diverse_recs, result, err>>
    /\ UNCHANGED store

\* no liked ids: the popular candidates are returned
ColdStart(s) ==
    /\ pc[s] = "called"
    /\ IsColdStart(liked_ids[s])
    /\ Finish(s, GetColdStartRecommendations(candidates[s], k[s]))
    /\ UNCHANGED <<phase, hashseed, index, liked_ids, disliked_ids, k, candidates,
                   sims, diverse_recs>>
    /\ UNCHANGED store

\* the user profile and the base similarities, or [] when no liked id is known
Profile(s) ==
    /\ pc[s] = "called"
    /\ ~IsColdStart(liked_ids[s])
    /\ LET liked_idx == LikedIdx(liked_ids[s])
       IN IF KeyError \in Range(liked_idx)
          THEN Raise(s, "KeyError") /\ UNCHANGED sims
          ELSE IF liked_idx = <<>>
          THEN Finish(s, <<>>) /\ UNCHANGED sims
          ELSE /\ sims' = [sims EXCEPT ![s] = BaseSims(liked_idx)]
               /\ pc' = [pc EXCEPT ![s] = "profiled"]
               /\ UNCHANGED <<result, err>>
    /\ UNCHANGED <<phase, hashseed, index, liked_ids, disliked_ids, k, candidates,
                   diverse_recs>>
    /\ UNCHANGED store

\* a bug: the similarity array is shared by the calls in progress
DampenedSimsShared(s) ==
    [t \in Slots |-> IF sims[t] = <<>> THEN <<>>
                     ELSE ApplyDislikePenalty(sims[t], disliked_ids[s])]

\* the similarity arrays after the call in slot s has dampened its disliked
\* positions: sims is an array of the call, no other call's array is written
DampenedSims(s) == [sims EXCEPT ![s] = ApplyDislikePenalty(sims[s], disliked_ids[s])]

Dampen(s) ==
    /\ pc[s] = "profiled"
    /\ IF DislikePenaltyRaises(disliked_ids[s])
       THEN Raise(s, "KeyError") /\ UNCHANGED sims
       ELSE /\ sims' = DampenedSims(s)
            /\ pc' = [pc EXCEPT ![s] = "dampened"]
            /\ UNCHANGED <<result, err>>
    /\ UNCHANGED <<phase, hashseed, index, liked_ids, disliked_ids, k, candidates,
                   diverse_recs>>
    /\ UNCHANGED store

Boost(s) ==
    /\ pc[s] = "dampened"
    /\ IF ApplyBoostsRaises
       THEN Raise(s, "TypeError") /\ UNCHANGED sims
       ELSE /\ sims' = [sims EXCEPT ![s] = ApplyBoosts(sims[s])]
            /\ pc' = [pc EXCEPT ![s] = "boosted"]
            /\ UNCHANGED <<result, err>>
    /\ UNCHANGED <<phase, hashseed, index, liked_ids, disliked_ids, k, candidates,
                   diverse_recs>>
    /\ UNCHANGED store

Rerank(s) ==
    /\ pc[s] = "boosted"
    /\ diverse_recs' = [diverse_recs EXCEPT ![s] =
           ApplyDiversityReranking(Ranked(candidates[s], sims[s]), liked_ids[s], k[s])]
    /\ pc' = [pc EXCEPT ![s] = "reranked"]
    /\ UNCHANGED <<phase, hashseed, index, liked_ids, disliked_ids, k, candidates,
                   sims, result, err>>
    /\ UNCHANGED store

Explained(s) ==
    /\ pc[s] = "reranked"
    /\ IF ExplainRaises(liked_ids[s])
       THEN Raise(s, "KeyError")
       ELSE Finish(s, Emit(diverse_recs[s], liked_ids[s], k[s], hashseed))
    /\ UNCHANGED <<phase, hashseed, index, liked_ids, disliked_ids, k, candidates,
                   sims, diverse_recs>>
    /\ UNCHANGED store

\* the caller has taken the result; the slot is free for the next call
Return(s) ==
    /\ pc[s] \in {"done", "raised"}
    /\ pc' = [pc EXCEPT ![s] = "idle"]
    /\ liked_ids' = [liked_ids EXCEPT ![s] = <<>>]
    /\ disliked_ids' = [disliked_ids EXCEPT ![s] = <<>>]
    /\ k' = [k EXCEPT ![s] = 0]
    /\ candidates' = [candidates EXCEPT ![s] = <<>>]
    /\ sims' = [sims EXCEPT ![s] = <<>>]
    /\ diverse_recs' = [diverse_recs EXCEPT ![s] = <<>>]
    /\ result' = [result EXCEPT ![s] = <<>>]
    /\ err' = [err EXCEPT ![s] = ""]
    /\ UNCHANGED <<phase, hashseed, index>>
    /\ UNCHANGED store

Step(s) ==
    \/ ColdStart(s)
    \/ Profile(s)
    \/ Dampen(s)
    \/ Boost(s)
    \/ Rerank(s)
    \/ Explained(s)
    \/ Return(s)

SeqsUpTo(S, n) == UNION {[1..m -> S] : m \in 0..n}

\* the ids a request may name: those of the catalog and one that is unknown
IdSpace == CatalogIds \cup {UnknownId}

\* one call at a time, with any request within the bounds
Next ==
    \/ \E ms \in Catalogs : Construct(ms)
    \/ \E liked \in SeqsUpTo(IdSpace, MaxIds) :
         \E disliked \in SeqsUpTo(IdSpace, MaxIds - Len(liked)) :
           \E kk \in 1..MaxK : Call(1, liked, disliked, kk)
    \/ Step(1)

Spec == Init /\ [][Next]_vars

\* the requests of the concurrent calls
ParRequests ==
    { [liked |-> <<1>>, disliked |-> <<3>>, k |-> 2],
      [liked |-> <<2>>, disliked |-> <<1>>, k |-> 1],
      [liked |-> <<>>, disliked |-> <<2>>, k |-> 2],
      [liked |-> <<1, 9>>, disliked |-> <<2, 2>>, k |-> 2] }

\* calls in all slots, interleaved step by step
NextPar ==
    \/ \E ms \in Catalogs : Construct(ms)
    \/ \E s \in Slots : \E r \in ParRequests : Call(s, r.liked, r.disliked, r.k)
    \/ \E s \in Slots : Step(s)

SpecPar == Init /\ [][NextPar]_vars

\* the values of the query parameter k of GET /recommendations: any integer
QueryK == -1..MaxK

\* recommendations(k, authorization): the stored lists of the user and the
\* query parameter are handed to RECOMMENDER.recommend as they are
Recommendations(s, liked, disliked, kq) == Call(s, liked, disliked, kq)

\* the endpoint, one request at a time
NextHttp ==
    \/ \E ms \in Catalogs : Construct(ms)
    \/ \E liked \in SeqsUpTo(IdSpace, 1) :
         \E disliked \in SeqsUpTo(IdSpace, 1) :
           \E kq \in QueryK : Recommendations(1, liked, disliked, kq)
    \/ Step(1)

SpecHttp == Init /\ [][NextHttp]_vars

(***************************************************************************)
(* The store and the token manager as a program: the methods of            *)
(* InMemoryDatabase and TokenManager and the handlers of main.py.          *)
(***************************************************************************)
recommender == <<phase, hashseed, index, locals>>

Usernames == {"ana", "bia", "cy"}

Emails == {"a@x", "b@x", "c@x"}

Passwords == {"p", "q"}

\* the payloads of /auth/register
Accounts ==
    <<[username |-> "ana", email |-> "a@x", password |-> "p"],
      [username |-> "bia", email |-> "b@x", password |-> "q"]>>

\* the user ids a call may name
UserIds == 1..MaxUsers

\* the movie ids a feedback may name
FeedbackIds == {1, 2}

\* the ratings a call may carry: one that is out of range, one that is valid
Ratings == {0, 5}

\* the keyword arguments of update_user
Kwargs ==
    {kw \in UNION {[D -> Usernames \cup Emails \cup Passwords] :
                      D \in SUBSET {"username", "email", "password"}} :
        /\ "username" \in DOMAIN kw => kw.username \in Usernames
        /\ "email" \in DOMAIN kw => kw.email \in Emails
        /\ "password" \in DOMAIN kw => kw.password \in Passwords}

\* how far the clock moves between two calls
ClockSteps == {TOKEN_EXPIRY_HOURS \div 2, TOKEN_EXPIRY_HOURS \div 2 + 1}

\* the tokens a request may carry
TokenIds == 1..MaxTokens

\* secrets.token_urlsafe(32): a token that was never handed out before
NewToken == Cardinality(DOMAIN issued) + 1

Ret(op, user, movie, token, value) ==
    [op |-> op, user |-> user, movie |-> movie, token |-> token, value |-> value]

\* DB.create_user(username, email, password)
CreateUserCall(username, email, password) ==
    LET r == CreateUser(db, username, email, password)
    IN /\ r.value # NoneValue => db.next_id <= MaxUsers
       /\ db' = r.db
       /\ created' = IF r.value = NoneValue THEN created ELSE Append(created, r.value)
       /\ ret' = Ret("create_user", r.value, 0, 0, r.value)
       /\ UNCHANGED <<tokens, now, issued, dead, last_fb, inflight, response, recommender>>

\* DB.update_user(user_id, **kwargs)
UpdateUserCall(user_id, kwargs) ==
    LET r == UpdateUser(db, user_id, kwargs)
    IN /\ db' = r.db
       /\ ret' = Ret("update_user", user_id, 0, 0, r.value)
       /\ UNCHANGED <<tokens, now, issued, dead, created, last_fb, inflight, response,
                      recommender>>

\* DB.delete_user(user_id)
DeleteUserCall(user_id) ==
    LET r == DeleteUser(db, user_id)
    IN /\ db' = r.db
       /\ ret' = Ret("delete_user", user_id, 0, 0, r.value)
       /\ UNCHANGED <<tokens, now, issued, dead, created, last_fb, inflight, response,
                      recommender>>

\* the last feedback of the user on the movie is fb, when the user exists
Noted(user_id, movie_id, fb) ==
    IF GetUserById(db, user_id) = NoneValue THEN last_fb
    ELSE [last_fb EXCEPT ![<<user_id, movie_id>>] = fb]

\* DB.add_like(user_id, movie_id)
AddLikeCall(user_id, movie_id) ==
    /\ db' = AddLike(db, user_id, movie_id)
    /\ last_fb' = Noted(user_id, movie_id, "like")
    /\ ret' = Ret("add_like", user_id, movie_id, 0, NoneValue)
    /\ UNCHANGED <<tokens, now, issued, dead, created, inflight, response, recommender>>

\* DB.add_dislike(user_id, movie_id)
AddDislikeCall(user_id, movie_id) ==
    /\ db' = AddDislike(db, user_id, movie_id)
    /\ last_fb' = Noted(user_id, movie_id, "dislike")
    /\ ret' = Ret("add_dislike", user_id, movie_id, 0, NoneValue)
    /\ UNCHANGED <<tokens, now, issued, dead, created, inflight, response, recommender>>

\* DB.add_rating(user_id, movie_id, rating)
AddRatingCall(user_id, movie_id, rating) ==
    /\ db' = AddRating(db, user_id, movie_id, rating)
    /\ ret' = Ret("add_rating", user_id, movie_id, 0, NoneValue)
    /\ UNCHANGED <<tokens, now, issued, dead, created, last_fb, inflight, response,
                   recommender>>

\* DB.remove_feedback(user_id, movie_id)
RemoveFeedbackCall(user_id, movie_id) ==
    /\ db' = RemoveFeedback(db, user_id, movie_id)
    /\ last_fb' = Noted(user_id, movie_id, "")
    /\ ret' = Ret("remove_feedback", user_id, movie_id, 0, NoneValue)
    /\ UNCHANGED <<tokens, now, issued, dead, created, inflight, response, recommender>>

\* the store alone: users are created, renamed and deleted
NextUsers ==
    \/ \E username \in Usernames : \E email \in Emails : \E password \in Passwords :
         CreateUserCall(username, email, password)
    \/ \E user_id \in UserIds : \E kwargs \in Kwargs : UpdateUserCall(user_id, kwargs)
    \/ \E user_id \in UserIds : DeleteUserCall(user_id)

SpecUsers == Init /\ [][NextUsers]_vars

\* the store alone: the feedback of the users
NextFeedback ==
    \/ \E n \in DOMAIN Accounts :
         CreateUserCall(Accounts[n].username, Accounts[n].email, Accounts[n].password)
    \/ \E user_id \in UserIds : \E movie_id \in FeedbackIds : AddLikeCall(user_id, movie_id)
    \/ \E user_id \in UserIds : \E movie_id \in FeedbackIds : AddDislikeCall(user_id, movie_id)
    \/ \E user_id \in UserIds : \E movie_id \in FeedbackIds : \E rating \in Ratings :
         AddRatingCall(user_id, movie_id, rating)
    \/ \E user_id \in UserIds : \E movie_id \in FeedbackIds :
         RemoveFeedbackCall(user_id, movie_id)

SpecFeedback == Init /\ [][NextFeedback]_vars

\* the account that has this id: the place in the sequence of creations cr
\* of the last user created with it
AccountOf(cr, user_id) ==
    CHOOSE i \in DOMAIN cr : cr[i] = user_id /\ \A j \in DOMAIN cr : cr[j] = user_id => j <= i

\* TOKEN_MANAGER.create_token(user_id) has returned token
Hand(token, user_id, account) ==
    /\ token <= MaxTokens
    /\ tokens' = CreateToken(tokens, token, user_id, now)
    /\ issued' = Put(issued, token, [user_id |-> user_id, account |-> account])

\* POST /auth/register: the user is created and gets a token, or 400
Register(account) ==
    LET r == CreateUser(db, account.username, account.email, account.password)
    IN /\ db' = r.db
       /\ IF r.value = NoneValue
          THEN /\ ret' = Ret("register", NoneValue, 0, 0, NoneValue)
               /\ UNCHANGED <<tokens, issued, created>>
          ELSE /\ db.next_id <= MaxUsers
               /\ Hand(NewToken, r.value, Len(created) + 1)
               /\ created' = Append(created, r.value)
               /\ ret' = Ret("register", r.value, 0, NewToken, NewToken)
       /\ UNCHANGED <<now, dead, last_fb, inflight, response, recommender>>

\* POST /auth/login: a user who authenticates gets a token, or 401
Login(username, password) ==
    LET user_id == Authenticate(db, username, password)
    IN /\ IF user_id = NoneValue
          THEN /\ ret' = Ret("login", NoneValue, 0, 0, NoneValue)
               /\ UNCHANGED <<tokens, issued>>
          ELSE /\ Hand(NewToken, user_id, AccountOf(created, user_id))
               /\ ret' = Ret("login", user_id, 0, NewToken, NewToken)
       /\ UNCHANGED <<db, now, dead, created, last_fb, inflight, response, recommender>>

\* the tokens that a call at this time finds expired
FoundExpired(token) ==
    IF token \in DOMAIN tokens /\ now > tokens[token].expiry THEN {token} ELSE {}

\* TOKEN_MANAGER.validate_token(token)
ValidateTokenCall(token) ==
    LET r == ValidateToken(tokens, token, now)
    IN /\ tokens' = r.tokens
       /\ dead' = dead \cup FoundExpired(token)
       /\ ret' = Ret("validate_token", 0, 0, token, r.value)
       /\ UNCHANGED <<db, now, issued, created, last_fb, inflight, response, recommender>>

\* POST /auth/logout: TOKEN_MANAGER.revoke_token(token)
Logout(token) ==
    /\ tokens' = RevokeToken(tokens, token)
    /\ dead' = dead \cup ({token} \cap DOMAIN issued)
    /\ ret' = Ret("revoke_token", 0, 0, token, NoneValue)
    /\ UNCHANGED <<db, now, issued, created, last_fb, inflight, response, recommender>>

\* GET /auth/me: get_current_user(authorization)
GetMe(token) ==
    LET r == GetCurrentUser(db, tokens, token, now)
    IN /\ tokens' = r.tokens
       /\ dead' = dead \cup FoundExpired(token)
       /\ ret' = Ret("get_current_user", 0, 0, token, r.value)
       /\ UNCHANGED <<db, now, issued, created, last_fb, inflight, response, recommender>>

\* TOKEN_MANAGER.cleanup_expired()
CleanupExpiredCall ==
    /\ tokens' = CleanupExpired(tokens, now)
    /\ dead' = dead \cup {t \in DOMAIN tokens : now > tokens[t].expiry}
    /\ ret' = Ret("cleanup_expired", 0, 0, 0, NoneValue)
    /\ UNCHANGED <<db, now, issued, created, last_fb, inflight, response, recommender>>

\* time passes
Advance(hours) ==
    /\ now + hours <= MaxNow
    /\ now' = now + hours
    /\ UNCHANGED <<db, tokens, ret, dead, issued, created, last_fb, inflight, response,
                   recommender>>

\* accounts and sessions
NextAuth ==
    \/ \E n \in DOMAIN Accounts : Register(Accounts[n])
    \/ \E n \in DOMAIN Accounts : \E password \in Passwords :
         Login(Accounts[n].username, password)
    \/ \E token \in TokenIds : ValidateTokenCall(token)
    \/ \E token \in TokenIds : Logout(token)
    \/ \E token \in TokenIds : GetMe(token)
    \/ CleanupExpiredCall
    \/ \E hours \in ClockSteps : Advance(hours)
    \/ \E user_id \in UserIds : DeleteUserCall(user_id)

SpecAuth == Init /\ [][NextAuth]_vars

\* the worker threads that run the handlers
Workers == {1}

NoRequest == [action |-> "", user |-> 0, movie |-> 0]

\* the catalog of the running application
AppCatalog == BuildDataset(<<M1, M2>>)

\* POST /feedback of an authenticated user, up to the first statement of
\* add_like or add_dislike: the movie leaves the other list
FeedbackBegin(w, user_id, movie_id, action) ==
    /\ inflight[w] = NoRequest
    /\ GetUserById(db, user_id) # NoneValue
    /\ db' = IF action = "like" THEN AddLikeRemove(db, user_id, movie_id)
             ELSE AddDislikeRemove(db, user_id, movie_id)
    /\ inflight' = [inflight EXCEPT ![w] =
                       [action |-> action, user |-> user_id, movie |-> movie_id]]
    /\ UNCHANGED <<tokens, now, ret, issued, dead, created, last_fb, response, recommender>>

\* POST /feedback, the second statement and the response: the movie joins the
\* list
FeedbackEnd(w) ==
    /\ inflight[w] # NoRequest
    /\ db' = IF inflight[w].action = "like"
             THEN AddLikeAppend(db, inflight[w].user, inflight[w].movie)
             ELSE AddDislikeAppend(db, inflight[w].user, inflight[w].movie)
    /\ last_fb' = Noted(inflight[w].user, inflight[w].movie, inflight[w].action)
    /\ inflight' = [inflight EXCEPT ![w] = NoRequest]
    /\ UNCHANGED <<tokens, now, ret, issued, dead, created, response, recommender>>

\* DELETE /feedback/{movie_id} of an authenticated user
DeleteFeedback(user_id, movie_id) ==
    /\ GetUserById(db, user_id) # NoneValue
    /\ db' = RemoveFeedback(db, user_id, movie_id)
    /\ last_fb' = Noted(user_id, movie_id, "")
    /\ UNCHANGED <<tokens, now, ret, issued, dead, created, inflight, response, recommender>>

\* POST /rating of an authenticated user
RateMovie(user_id, movie_id, rating) ==
    /\ GetUserById(db, user_id) # NoneValue
    /\ db' = AddRating(db, user_id, movie_id, rating)
    /\ UNCHANGED <<tokens, now, ret, issued, dead, created, last_fb, inflight, response,
                   recommender>>

\* the ids of the movies of a list of triples
ItemIds(list) == {movies[list[i].item].id : i \in DOMAIN list}

\* GET /recommendations of an authenticated user: the ids of the movies in
\* the response, and the movies whose feedback stood when it was made
RecommendationsCall(user_id, kq) ==
    /\ phase = "ready"
    /\ GetUserById(db, user_id) # NoneValue
    /\ response' = [user |-> user_id,
                    items |-> ItemIds(Recommend(db.users[user_id].liked_movies,
                                                db.users[user_id].disliked_movies,
                                                kq, hashseed).list),
                    held |-> {m \in FeedbackIds : last_fb[<<user_id, m>>] # ""}]
    /\ UNCHANGED <<db, tokens, now, ret, issued, dead, created, last_fb, inflight,
                   recommender>>

\* the movie the requests of the application are about
AppMovieIds == {1}

\* the application: the handlers of the users' requests, a feedback request
\* being two steps of its worker thread
NextApp ==
    \/ Construct(AppCatalog)
    \/ \E n \in DOMAIN Accounts :
         CreateUserCall(Accounts[n].username, Accounts[n].email, Accounts[n].password)
    \/ \E w \in Workers : \E user_id \in UserIds : \E movie_id \in AppMovieIds :
         \E action \in {"like", "dislike"} : FeedbackBegin(w, user_id, movie_id, action)
    \/ \E w \in Workers : FeedbackEnd(w)
    \/ \E user_id \in UserIds : \E movie_id \in AppMovieIds : DeleteFeedback(user_id, movie_id)
    \/ \E user_id \in UserIds : \E movie_id \in AppMovieIds : RateMovie(user_id, movie_id, 5)
    \/ \E user_id \in UserIds : \E kq \in 1..MaxK : RecommendationsCall(user_id, kq)

SpecApp == Init /\ [][NextApp]_vars



(***************************************************************************)
(* Properties.                                                             *)
(***************************************************************************)
\* what the call in slot s has returned or raised
Outcome(s) == IF pc[s] = "raised" THEN Raised(err[s]) ELSE Returned(result[s])

Over(s) == pc[s] \in {"done", "raised"}

\* the ids of the items returned in slot s
ReturnedIds(s) == {movies[result[s][i].item].id : i \in DOMAIN result[s]}

\* the catalog positions whose id is neither liked nor disliked
Eligible(s) ==
    {i \in DOMAIN movies :
        movies[i].id \notin Range(liked_ids[s]) /\ movies[i].id \notin Range(disliked_ids[s])}

Personalized(s) == liked_ids[s] # <<>>

\* C1: no item returned by recommend has an id that occurs in liked_ids or in
\* disliked_ids, on the cold-start path and on the personalized path alike.
C1_Exclusion ==
    \A s \in Slots :
        pc[s] = "done" =>
            ReturnedIds(s) \cap (Range(liked_ids[s]) \cup Range(disliked_ids[s])) = {}

\* C1 happens: a personalized call returned items while a disliked catalog item
\* was more similar to the user's profile than a returned item
C1_Witness ==
    \E s \in Slots :
        /\ pc[s] = "done"
        /\ Personalized(s)
        /\ \E d \in Range(disliked_ids[s]) \cap CatalogIds :
             \E i \in DOMAIN result[s] :
                BaseSims(LikedIdx(liked_ids[s]))[Lookup(d)]
                    > BaseSims(LikedIdx(liked_ids[s]))[result[s][i].item]

\* C2: for k >= 1 the number of triples returned is at most
\* min(k, number of catalog items whose id is neither liked nor disliked).
C2_LengthBound ==
    \A s \in Slots :
        pc[s] = "done" => Len(result[s]) <= Min(k[s], Cardinality(Eligible(s)))

\* C2 happens: a personalized call with more eligible items than k returned k items
C2_Witness ==
    \E s \in Slots :
        /\ pc[s] = "done"
        /\ Personalized(s)
        /\ Len(result[s]) = k[s]
        /\ Cardinality(Eligible(s)) > k[s]

\* C3, as stated: the result length is at most
\* min(k, |catalog| - |liked /\ catalog| - |disliked /\ catalog|).
C3_Original ==
    \A s \in Slots :
        pc[s] = "done" =>
            Len(result[s]) <= Min(k[s], Len(movies)
                                          - Cardinality(Range(liked_ids[s]) \cap CatalogIds)
                                          - Cardinality(Range(disliked_ids[s]) \cap CatalogIds))

\* C3, amended: the result length is at most
\* min(k, |catalog| - |(liked \/ disliked) /\ catalog|): an id that is both
\* liked and disliked excludes one item, once.
C3_LengthBoundUnion ==
    \A s \in Slots :
        pc[s] = "done" =>
            Len(result[s]) <= Min(k[s], Len(movies)
                - Cardinality((Range(liked_ids[s]) \cup Range(disliked_ids[s])) \cap CatalogIds))

\* C3 happens: a catalog id is both liked and disliked, and the call returned
\* every other item
C3_Witness ==
    \E s \in Slots :
        /\ pc[s] = "done"
        /\ Range(liked_ids[s]) \cap Range(disliked_ids[s]) \cap CatalogIds # {}
        /\ result[s] # <<>>
        /\ Len(result[s]) = Len(movies)
                - Cardinality((Range(liked_ids[s]) \cup Range(disliked_ids[s])) \cap CatalogIds)

\* item a comes before item b in the cold-start order: popularity descending,
\* then vote_average descending, then year descending
PopularFirst(a, b) ==
    \/ a.popularity[1] > b.popularity[1]
    \/ /\ a.popularity[1] = b.popularity[1]
       /\ \/ a.vote_average[1] > b.vote_average[1]
          \/ a.vote_average[1] = b.vote_average[1] /\ a.year > b.year

\* the result of slot s is the first k eligible items in the cold-start order,
\* each with score 0.0
IsColdStartList(s) ==
    LET res == result[s]
        items == {res[i].item : i \in DOMAIN res}
    IN /\ Len(res) = Min(k[s], Cardinality(Eligible(s)))
       /\ items \subseteq Eligible(s)
       /\ Cardinality(items) = Len(res)
       /\ \A i \in DOMAIN res : res[i].score = 0
       /\ \A i, j \in DOMAIN res :
             i < j => ~PopularFirst(movies[res[j].item], movies[res[i].item])
       /\ \A e \in Eligible(s) \ items :
             \A i \in DOMAIN res : ~PopularFirst(movies[e], movies[res[i].item])

\* the catalog of the example: popularity [50, 30, 10], vote_average [7, 9, 5]
ExampleCatalog ==
    /\ Len(movies) = 3
    /\ [i \in 1..3 |-> movies[i].popularity[1]] = <<50, 30, 10>>
    /\ [i \in 1..3 |-> movies[i].vote_average[1]] = <<70, 90, 50>>

\* C4, as stated: when a request has no valid liked ids, recommend returns the
\* first k eligible candidates in the cold-start order, each with score 0.0.
C4_Original ==
    \A s \in Slots :
        (Over(s) /\ Range(liked_ids[s]) \cap CatalogIds = {}) =>
            pc[s] = "done" /\ IsColdStartList(s)

\* C4, amended: when liked_ids is empty, recommend returns the first k eligible
\* candidates ordered by popularity, then vote_average, then year, all
\* descending, each with score exactly 0.0; on the example catalog with
\* liked_ids = [], no dislikes and k = 2 that is [item@pop50, item@pop30].
C4_ColdStart ==
    \A s \in Slots :
        (Over(s) /\ liked_ids[s] = <<>>) =>
            /\ pc[s] = "done"
            /\ IsColdStartList(s)
            /\ (ExampleCatalog /\ disliked_ids[s] = <<>> /\ k[s] = 2) =>
                   [i \in DOMAIN result[s] |-> result[s][i].item] = <<1, 2>>

\* C4 happens: a cold-start call returned two items that tie on popularity and
\* on vote_average, the later year first, and left an eligible item out
C4_Witness ==
    \E s \in Slots :
        /\ pc[s] = "done"
        /\ liked_ids[s] = <<>>
        /\ Len(result[s]) = 2
        /\ Cardinality(Eligible(s)) > 2
        /\ movies[result[s][1].item].popularity = movies[result[s][2].item].popularity
        /\ movies[result[s][1].item].vote_average = movies[result[s][2].item].vote_average
        /\ movies[result[s][1].item].year > movies[result[s][2].item].year

\* C5: if liked_ids is non-empty but none of its ids is in the catalog,
\* recommend returns the empty list, whatever disliked_ids is, and does not raise.
C5_NoValidLikedIsEmpty ==
    \A s \in Slots :
        (Personalized(s) /\ Range(liked_ids[s]) \cap CatalogIds = {}) =>
            /\ pc[s] \in {"called", "done"}
            /\ result[s] = <<>>

\* C5 happens: such a call is over while eligible items were there to return
C5_Witness ==
    \E s \in Slots :
        /\ pc[s] = "done"
        /\ Personalized(s)
        /\ Range(liked_ids[s]) \cap CatalogIds = {}
        /\ disliked_ids[s] # <<>>
        /\ Eligible(s) # {}

KnownOnly(ids) == SelectSeq(ids, LAMBDA x : x \in CatalogIds)

\* C7, as stated: recommend(liked_ids, disliked_ids, k) returns the same result
\* as the call with every id that is absent from the catalog removed.
C7_Original ==
    \A s \in Slots :
        Over(s) =>
            Outcome(s) = Recommend(KnownOnly(liked_ids[s]), KnownOnly(disliked_ids[s]),
                                   k[s], hashseed)

\* C7, amended: the same, provided liked_ids is empty or holds at least one
\* catalog id (a non-empty liked_ids of unknown ids only gives [], while the
\* empty liked_ids gives the cold-start list).
C7_UnknownIdsIgnored ==
    \A s \in Slots :
        (Over(s) /\ (liked_ids[s] = <<>> \/ Range(liked_ids[s]) \cap CatalogIds # {})) =>
            Outcome(s) = Recommend(KnownOnly(liked_ids[s]), KnownOnly(disliked_ids[s]),
                                   k[s], hashseed)

\* C7 happens: a personalized call that names an unknown id returned items
C7_Witness ==
    \E s \in Slots :
        /\ pc[s] = "done"
        /\ result[s] # <<>>
        /\ Personalized(s)
        /\ Range(disliked_ids[s]) \ CatalogIds # {}

\* C8: identical (catalog, liked_ids, disliked_ids, k) always yield identical
\* output, items, order, scores and reason text, also in another process (under
\* another hash seed).
C8_Deterministic ==
    \A s \in Slots :
        Over(s) =>
            \A seed \in Seeds :
                Outcome(s) = Recommend(liked_ids[s], disliked_ids[s], k[s], seed)

\* C9: constructing the recommender over an empty catalog fails; a recommender
\* that was built has a catalog, and a vector with a vocabulary for every item.
C9_EmptyCatalogFails ==
    /\ phase = "ready" =>
          /\ movies # <<>>
          /\ DOMAIN tfidf = DOMAIN movies
          /\ \A i \in DOMAIN tfidf : DOMAIN tfidf[i] # {}
    /\ (phase # "new" /\ movies = <<>>) => phase = "failed"

\* C9 happens: the construction over the empty catalog has failed
C9_Witness == phase = "failed" /\ movies = <<>>

\* C10: no step of recommend changes the catalog records, the id-to-position
\* map or the item vectors, and every call, however it is interleaved with the
\* steps of other calls, ends with the result of the call run alone and keeps
\* it while the other calls go on.
C10_PureRead ==
    /\ [][phase = "ready" => index' = index]_vars
    /\ [](\A s \in Slots :
            Over(s) =>
                Outcome(s) = Recommend(liked_ids[s], disliked_ids[s], k[s], hashseed))

\* C10 happens: a call is over with items returned while another call has
\* dampened, in its own array, the position of one of these items
C10_Witness ==
    \E s, t \in Slots :
        /\ s # t
        /\ pc[s] = "done"
        /\ pc[t] = "dampened"
        /\ \E d \in Range(disliked_ids[t]) \cap ReturnedIds(s) :
              sims[t][Lookup(d)] < BaseSims(LikedIdx(liked_ids[t]))[Lookup(d)]

\* C11: the item ids of the catalog handed to the recommender are unique, so
\* the id-to-position map is a bijection between the catalog's ids and its
\* positions.
C11_UniqueIds ==
    phase = "ready" =>
        /\ \A i, j \in DOMAIN movies : movies[i].id = movies[j].id => i = j
        /\ {id_to_idx[id] : id \in DOMAIN id_to_idx} = DOMAIN movies

\* C12: the /recommendations endpoint never invokes recommend with k <= 0.
C12_PositiveK == \A s \in Slots : pc[s] # "idle" => k[s] >= 1

\* the call in slot s went through the re-ranker and returned
Reranked(s) == pc[s] = "done" /\ diverse_recs[s] # <<>>

\* the items the re-ranker examined in the call of slot s, in the order of the
\* Scoring Engine's ranked list, each with its score and its adjusted score
Examined(s) ==
    RerankLoop(Ranked(candidates[s], sims[s]), 1, liked_ids[s], k[s], NoneSeen).recs

\* the diversity-adjusted score of the catalog position pos in slot s
AdjustedOf(s, pos) ==
    LET ex == Examined(s)
    IN ex[CHOOSE i \in DOMAIN ex : ex[i].pos = pos].adjusted

\* C13: on the personalized path the score of each returned triple is the
\* item's score before the re-ranking, the triples are in non-increasing order
\* of the diversity-adjusted score, and they are the k highest adjusted items
\* among those examined.
C13_ScoreAndOrder ==
    \A s \in Slots :
        Reranked(s) =>
            LET res == result[s]
                ex == Examined(s)
                examined == {ex[i].pos : i \in DOMAIN ex}
                returned == {res[i].item : i \in DOMAIN res}
            IN /\ Len(res) = Min(k[s], Len(ex))
               /\ returned \subseteq examined
               /\ \A i \in DOMAIN res : res[i].score = sims[s][res[i].item]
               /\ \A i, j \in DOMAIN res :
                     i < j => AdjustedOf(s, res[i].item) >= AdjustedOf(s, res[j].item)
               /\ \A p \in examined \ returned :
                     \A i \in DOMAIN res : AdjustedOf(s, p) <= AdjustedOf(s, res[i].item)

\* C13 happens: the returned order is not the order of the returned scores (an
\* item comes before one with a higher score) and an examined item is left out
C13_Witness ==
    \E s \in Slots :
        /\ Reranked(s)
        /\ Len(Examined(s)) > Len(result[s])
        /\ \E i, j \in DOMAIN result[s] :
              /\ i < j
              /\ result[s][i].score < result[s][j].score
              /\ AdjustedOf(s, result[s][i].item) > AdjustedOf(s, result[s][j].item)

\* the titles of the catalog items whose id is in the sequence ids
LikedTitles(ids) == {movies[i].title : i \in {j \in DOMAIN movies : movies[j].id \in Range(ids)}}

\* C14: a reason names an anchor title only when the anchor is a catalog item
\* whose id is in liked_ids; the explanation made for liked ids of which none
\* is in the catalog is the generic content-similarity message; every
\* cold-start triple carries the popularity reason, without an anchor.
C14_AnchorIsLiked ==
    /\ \A s \in Slots : \A i \in DOMAIN result[s] :
          LET reason == result[s][i].reason
          IN /\ reason.anchor # "" => reason.anchor \in LikedTitles(liked_ids[s])
             /\ liked_ids[s] = <<>> => reason.kind = "popular" /\ reason.anchor = ""
             /\ liked_ids[s] # <<>> =>
                   reason.kind = "anchor" /\ reason.anchor \in LikedTitles(liked_ids[s])
    /\ phase = "ready" =>
          \A i \in DOMAIN movies : \A liked \in SeqsUpTo({UnknownId}, MaxIds) :
              Explain(movies[i], liked, hashseed) = GenericReason

\* C14 happens: a call returned two triples whose anchors are two different
\* liked items
C14_Witness ==
    \E s \in Slots :
        /\ pc[s] = "done"
        /\ \E i, j \in DOMAIN result[s] :
              /\ result[s][i].reason.anchor # ""
              /\ result[s][j].reason.anchor # ""
              /\ result[s][i].reason.anchor # result[s][j].reason.anchor

\* recommend without the dampening of the disliked positions: the boosts act on
\* the base similarities
RecommendUndampened(liked, disliked, kk, seed) ==
    LET cands == Candidates(liked, disliked)
    IN IF IsColdStart(liked) THEN Returned(GetColdStartRecommendations(cands, kk))
       ELSE IF LikedIdx(liked) = <<>> THEN Returned(<<>>)
       ELSE IF ApplyBoostsRaises THEN Raised("TypeError")
       ELSE LET boosted == ApplyBoosts(BaseSims(LikedIdx(liked)))
                diverse == ApplyDiversityReranking(Ranked(cands, boosted), liked, kk)
            IN Returned(Emit(diverse, liked, kk, seed))

\* C15: the dampening of the disliked positions has no observable effect: the
\* output of recommend (items, order, scores, reasons) is the output of the
\* same pipeline without the dampening.
C15_DampeningUnobservable ==
    \A s \in Slots :
        Over(s) =>
            Outcome(s) = RecommendUndampened(liked_ids[s], disliked_ids[s], k[s], hashseed)

\* C15 happens: a personalized call returned items after it had lowered the
\* similarity of a disliked catalog item
C15_Witness ==
    \E s \in Slots :
        /\ pc[s] = "done"
        /\ Personalized(s)
        /\ result[s] # <<>>
        /\ \E d \in (Range(disliked_ids[s]) \cap CatalogIds) \ Range(liked_ids[s]) :
              LET base == BaseSims(LikedIdx(liked_ids[s]))
              IN ApplyDislikePenalty(base, disliked_ids[s])[Lookup(d)] < base[Lookup(d)]

\* the re-ranker has run in the call of slot s
RerankerRan(s) == pc[s] \in {"reranked", "done"} /\ sims[s] # <<>>

\* C16: the re-ranker examines the ranked list in order and stops once 3 x k
\* items have been examined: for k >= 1 exactly min(3k, length of the ranked
\* list) items are examined, the first ones, and no item ranked after
\* position 3k is returned.
C16_BoundedScan ==
    \A s \in Slots :
        (RerankerRan(s) /\ k[s] >= 1) =>
            LET ranked == Ranked(candidates[s], sims[s])
                n == Min(3 * k[s], Len(ranked))
                window == {ranked[i].pos : i \in 1..n}
            IN /\ Len(diverse_recs[s]) = n
               /\ {diverse_recs[s][i].pos : i \in DOMAIN diverse_recs[s]} = window
               /\ {result[s][i].item : i \in DOMAIN result[s]} \subseteq window

\* C16 happens: a call returned items while its ranked list was longer than 3k
C16_Witness ==
    \E s \in Slots :
        /\ pc[s] = "done"
        /\ RerankerRan(s)
        /\ result[s] # <<>>
        /\ Len(Ranked(candidates[s], sims[s])) > 3 * k[s]

\* the seen sets of the re-ranking loop after the first n items of ranked
RECURSIVE SeenAfter(_, _, _)
SeenAfter(ranked, n, liked) ==
    IF n = 0 THEN NoneSeen ELSE Examine(SeenAfter(ranked, n - 1, liked), ranked[n], liked)

\* the place of the catalog position pos in the re-ranked list of slot s
PlaceOf(s, pos) == CHOOSE i \in DOMAIN diverse_recs[s] : diverse_recs[s][i].pos = pos

\* in slot s, the items i and j of the ranked list are both examined and have
\* the same score, the director of i was seen when i was examined and the
\* director of j was new when j was examined
SeenAndNewDirector(s, i, j) ==
    LET ranked == Ranked(candidates[s], sims[s])
        di == movies[ranked[i].pos].director
        dj == movies[ranked[j].pos].director
    IN /\ i # j
       /\ ranked[i].score = ranked[j].score
       /\ di \in SeenAfter(ranked, i - 1, liked_ids[s]).seen_directors
       /\ dj # "" /\ dj \notin SeenAfter(ranked, j - 1, liked_ids[s]).seen_directors

\* the factors other than the director's that item i of the ranked list gets
\* when it is examined: studio, keywords, decade, genre penalty, franchise
OtherFactors(s, i) ==
    LET ranked == Ranked(candidates[s], sims[s])
        seen == SeenAfter(ranked, i - 1, liked_ids[s])
        m == movies[ranked[i].pos]
    IN <<Tail(DiversityBoost(m, seen.seen_directors, seen.seen_companies,
                             seen.seen_keywords, seen.seen_decades)),
         GenrePenalty(m, seen.recommended_genres), FranchiseBoost(m, liked_ids[s])>>

\* the items of the ranked list that the re-ranker examines in slot s
Window(s) == 1..Len(diverse_recs[s])

\* C17, as stated: of two examined candidates with equal base score, one with
\* a director already seen and one with a new director, the new-director
\* candidate ranks at least as high in the re-ranked output.
C17_Original ==
    \A s \in Slots :
        RerankerRan(s) =>
            \A i, j \in Window(s) :
                SeenAndNewDirector(s, i, j) =>
                    LET ranked == Ranked(candidates[s], sims[s])
                    IN PlaceOf(s, ranked[j].pos) < PlaceOf(s, ranked[i].pos)

\* C17, amended: the same, provided the two candidates get the same studio,
\* keyword and decade factors, the same genre penalty and the same franchise
\* boost when they are examined.
C17_NewDirectorFirst ==
    \A s \in Slots :
        RerankerRan(s) =>
            \A i, j \in Window(s) :
                (SeenAndNewDirector(s, i, j) /\ OtherFactors(s, i) = OtherFactors(s, j)) =>
                    LET ranked == Ranked(candidates[s], sims[s])
                    IN PlaceOf(s, ranked[j].pos) < PlaceOf(s, ranked[i].pos)

\* C17 happens: the candidate with the new director came after the other in
\* the ranked list and is before it in the re-ranked list
C17_Witness ==
    \E s \in Slots :
        /\ pc[s] = "done"
        /\ RerankerRan(s)
        /\ \E i, j \in Window(s) :
              /\ i < j
              /\ SeenAndNewDirector(s, i, j)
              /\ OtherFactors(s, i) = OtherFactors(s, j)
              /\ LET ranked == Ranked(candidates[s], sims[s])
                 IN PlaceOf(s, ranked[j].pos) < PlaceOf(s, ranked[i].pos)

\* the director of m, or its decade, as a set: empty when the item has none
OwnOf(m, key) == IF Get(m, key, "") # "" THEN {m[key]} ELSE {}

\* the adjusted score of m, of the given score, when the sets are those of seen
AdjustedFrom(m, score, seen, liked) ==
    Mul(Mul(MulAll(score, DiversityBoost(m, seen.seen_directors, seen.seen_companies,
                                         seen.seen_keywords, seen.seen_decades)),
            GenrePenalty(m, seen.recommended_genres)), FranchiseBoost(m, liked))

\* C18: during one re-ranking pass the seen sets and the recommended-genres
\* set only grow: after each examined item every set is what it was plus the
\* item's director, its first 2 production companies, its first 5 keywords, its
\* decade and all its genres, and the factors of an item are computed from the
\* sets as they were before the item was added.
C18_SeenSetsGrow ==
    \A s \in Slots :
        RerankerRan(s) =>
            LET ranked == Ranked(candidates[s], sims[s])
            IN \A n \in Window(s) :
                 LET before == SeenAfter(ranked, n - 1, liked_ids[s])
                     after == SeenAfter(ranked, n, liked_ids[s])
                     m == movies[ranked[n].pos]
                 IN /\ after.seen_directors = before.seen_directors \cup OwnOf(m, "director")
                    /\ after.seen_companies = before.seen_companies
                          \cup {m.production_companies[c] :
                                  c \in DOMAIN m.production_companies \cap 1..2}
                    /\ after.seen_keywords = before.seen_keywords
                          \cup {m.keywords[c] : c \in DOMAIN m.keywords \cap 1..5}
                    /\ after.seen_decades = before.seen_decades \cup OwnOf(m, "decade")
                    /\ after.recommended_genres = before.recommended_genres \cup Range(m.genres)
                    /\ diverse_recs[s][PlaceOf(s, ranked[n].pos)].adjusted
                          = AdjustedFrom(m, ranked[n].score, before, liked_ids[s])

\* C18 happens: an item with more than 2 production companies and more than 5
\* keywords was examined, and an item was examined after it
C18_Witness ==
    \E s \in Slots :
        /\ pc[s] = "done"
        /\ RerankerRan(s)
        /\ \E n \in Window(s) :
              LET m == movies[Ranked(candidates[s], sims[s])[n].pos]
              IN /\ n < Len(diverse_recs[s])
                 /\ Len(m.production_companies) > 2
                 /\ Len(m.keywords) > 5

\* m has a collection, and some id of liked is the id of a catalog item whose
\* collection has the same collection id
SharesCollectionWithLiked(m, liked) ==
    /\ Get(m, "belongs_to_collection", <<>>) # <<>>
    /\ \E j \in DOMAIN movies :
          /\ movies[j].id \in Range(liked)
          /\ movies[j].belongs_to_collection # <<>>
          /\ movies[j].belongs_to_collection[1].id = m.belongs_to_collection[1].id

\* C19: the franchise boost of an examined item is x1.3 exactly when the item
\* has a collection and some id in liked_ids is that of a catalog item whose
\* collection has the same collection id; otherwise it is x1.0.
C19_FranchiseBoost ==
    \A s \in Slots :
        RerankerRan(s) =>
            \A n \in DOMAIN diverse_recs[s] :
                LET m == movies[diverse_recs[s][n].pos]
                IN FranchiseBoost(m, liked_ids[s]) =
                      IF SharesCollectionWithLiked(m, liked_ids[s])
                      THEN BOOST_SAME_FRANCHISE ELSE NEUTRAL

\* the quality boost of the tier table, in percent, of a rating in tenths and a
\* number of votes
TierBoost(rating, votes) ==
    IF votes <= 50 THEN 100
    ELSE IF rating >= 80 THEN 130
    ELSE IF rating >= 75 THEN 120
    ELSE IF rating >= 70 THEN 115
    ELSE IF rating >= 65 THEN 110
    ELSE IF rating < 50 THEN 80
    ELSE 100

\* the items a and b are alike in popularity, year and collection membership,
\* both have 200 votes, and their ratings are 8.2 and 6.0
AlikeButRating(a, b) ==
    /\ a.popularity = b.popularity
    /\ a.year = b.year
    /\ (a.belongs_to_collection = <<>>) = (b.belongs_to_collection = <<>>)
    /\ a.vote_count = <<200>> /\ b.vote_count = <<200>>
    /\ a.vote_average = <<82>> /\ b.vote_average = <<60>>

\* the boosts of the call in slot s have been applied
Boosted(s) == pc[s] \in {"boosted", "reranked", "done"} /\ sims[s] # <<>>

\* C20: for every item the quality boost is that of the tier table (1.0 when
\* vote_count <= 50; otherwise 1.30 from 8.0, 1.20 from 7.5, 1.15 from 7.0, 1.10
\* from 6.5, 0.80 below 5.0, 1.0 in between); hence the boosted scores of two
\* candidates of equal base similarity that are alike but for their ratings 8.2
\* and 6.0 are in the ratio 1.30 to 1.0 (up to the rounding of a score).
C20_QualityTiers ==
    /\ \A i \in DOMAIN movies :
          (movies[i].vote_average # <<>> /\ movies[i].vote_count # <<>>) =>
              QualityBoost(movies[i])
                  = TierBoost(movies[i].vote_average[1], movies[i].vote_count[1])
    /\ \A s \in Slots :
          Boosted(s) =>
              LET base == BaseSims(LikedIdx(liked_ids[s]))
              IN \A a, b \in Range(candidates[s]) :
                    (base[a] = base[b] /\ AlikeButRating(movies[a], movies[b])) =>
                        /\ sims[s][a] * 100 - sims[s][b] * 130 <= 300
                        /\ sims[s][b] * 130 - sims[s][a] * 100 <= 300

\* the optional number under key is missing from the item (None)
Missing(m, key) == Get(m, key, <<>>) = <<>>

\* C21: for every item a missing popularity, vote_average or vote_count gives
\* the neutral factor 1.0 for the boost that depends on it and never an error
\* (no call raises TypeError), and a present 0 is scored by the normal formula
\* or tier rule: a rating of 0.0 with enough votes falls in the tier below 5.0.
C21_MissingIsNeutral ==
    /\ \A i \in DOMAIN movies :
          LET m == movies[i]
          IN /\ Missing(m, "popularity") => PopularityBoost(m) = 1000
             /\ (Missing(m, "vote_average") \/ Missing(m, "vote_count")) =>
                    ~QualityRaises(m) /\ QualityBoost(m) = NEUTRAL
             /\ (m.vote_average = <<0>> /\ ~Missing(m, "vote_count")) =>
                    QualityBoost(m) = TierBoost(0, m.vote_count[1])
    /\ \A s \in Slots : err[s] # "TypeError"

\* the field names that open the parts of a document
Prefixes ==
    {"generos", "keywords", "diretor", "elenco", "empresas", "certificacao",
     "decada", "idioma", "paises", "popularidade", "tagline", "sinopse"}

\* how often the word w, in lower case, is among the first n entries of list
CountIn(list, n, w) ==
    Cardinality({j \in DOMAIN list : j <= n /\ Lower(list[j]) = w})

\* 1 if the string field is the word w, in lower case, else 0
IsWord(field, w) == IF field # "" /\ Lower(field) = w THEN 1 ELSE 0

\* every word of every field of the item, in lower case, taken or not
FieldWords(m) ==
    {Lower(x) : x \in Range(m.genres) \cup Range(m.keywords) \cup Range(m.cast)
                        \cup Range(m.production_companies)
                        \cup Range(m.production_countries) \cup Range(m.tagline)
                        \cup Range(m.overview)
                        \cup ({m.director, m.certification, m.decade,
                               m.original_language, m.popularity_tier} \ {""})}

\* C22: the document of an item holds its genres 5 times, its keywords 6 times,
\* its director 3 times, its first 5 cast members 2 times, its certification 2
\* times, and once each its first 3 companies, first 2 countries, decade,
\* original language, popularity tier, tagline and the first 150 words of its
\* overview; apart from the field names it holds nothing else, so what lies
\* behind a cap contributes nothing.
C22_DocumentWeights ==
    \A i \in DOMAIN movies :
        LET m == movies[i]
            doc == MovieToText(m)
        IN /\ Range(doc) \subseteq Prefixes \cup FieldWords(m)
           /\ \A w \in FieldWords(m) \ Prefixes :
                 TermCount(doc, w)
                   = 5 * CountIn(m.genres, Len(m.genres), w)
                     + 6 * CountIn(m.keywords, Len(m.keywords), w)
                     + 3 * IsWord(m.director, w)
                     + 2 * CountIn(m.cast, 5, w)
                     + 2 * IsWord(m.certification, w)
                     + CountIn(m.production_companies, 3, w)
                     + CountIn(m.production_countries, 2, w)
                     + IsWord(m.decade, w)
                     + IsWord(m.original_language, w)
                     + IsWord(m.popularity_tier, w)
                     + CountIn(m.tagline, Len(m.tagline), w)
                     + CountIn(m.overview, 150, w)

\* a recommender is built over an item that exceeds all four caps
C22_Witness ==
    /\ phase = "ready"
    /\ \E i \in DOMAIN movies :
          /\ Len(movies[i].cast) > 5
          /\ Len(movies[i].production_companies) > 3
          /\ Len(movies[i].production_countries) > 2
          /\ Len(movies[i].overview) > 150
          /\ TermCount(MovieToText(movies[i]), "cop") = 0

\* the fields of the item through which the word w, in lower case, gets into
\* its document
FieldsOf(m, w) ==
    {f \in {"genres", "keywords", "tagline"} : CountIn(m[f], Len(m[f]), w) > 0}
    \cup {f \in {"director", "certification", "decade", "original_language",
                  "popularity_tier"} : IsWord(m[f], w) > 0}
    \cup (IF CountIn(m.cast, MAX_CAST_MEMBERS, w) > 0 THEN {"cast"} ELSE {})
    \cup (IF CountIn(m.production_companies, MAX_COMPANIES, w) > 0
          THEN {"production_companies"} ELSE {})
    \cup (IF CountIn(m.production_countries, MAX_COUNTRIES, w) > 0
          THEN {"production_countries"} ELSE {})
    \cup (IF CountIn(m.overview, MAX_OVERVIEW_WORDS, w) > 0 THEN {"overview"} ELSE {})

\* C23: a word that two items have in different fields only (a genre of one,
\* an overview word of the other) maps to different vocabulary terms: no term
\* that comes from the word has a weight in the vectors of both items.
C23_NoCollision ==
    phase = "ready" =>
        \A a, b \in DOMAIN movies :
            \A w \in DOMAIN tfidf[a] \ Prefixes :
                (/\ FieldsOf(movies[a], w) # {}
                 /\ FieldsOf(movies[b], w) # {}
                 /\ FieldsOf(movies[a], w) \cap FieldsOf(movies[b], w) = {}) =>
                    ~(tfidf[a][w] > 0 /\ tfidf[b][w] > 0)

\* the places of liked whose id is in the catalog
Resolving(liked) == {j \in DOMAIN liked : Known(liked[j])}

\* the similarity of the item at catalog position pos to the item that the
\* liked id at place j resolves to
SimToLiked(pos, liked, j) == Cosine(tfidf[pos], tfidf[Lookup(liked[j])])

\* the place in liked of the most similar resolving id, the earliest on ties
BestPlace(pos, liked) ==
    CHOOSE j \in Resolving(liked) :
        \A h \in Resolving(liked) :
            \/ SimToLiked(pos, liked, h) < SimToLiked(pos, liked, j)
            \/ (SimToLiked(pos, liked, h) = SimToLiked(pos, liked, j) /\ j <= h)

\* C24: the anchor of a recommended item is the liked catalog item with the
\* highest cosine similarity to it among the ids of liked_ids that resolve to
\* catalog items, the earliest in liked_ids on ties; unknown ids are skipped.
C24_AnchorIsMostSimilar ==
    \A s \in Slots :
        (pc[s] = "done" /\ Resolving(liked_ids[s]) # {}) =>
            \A i \in DOMAIN result[s] :
                result[s][i].reason.anchor
                    = movies[Lookup(liked_ids[s][BestPlace(result[s][i].item, liked_ids[s])])].title

\* the priority of the reason with this label
PriorityOf(label) ==
    CASE label = "mesma franquia" -> 1
      [] label = "diretor" -> 2
      [] label \in {"temas", "tema"} -> 3
      [] label \in {"elenco", "ator"} -> 4
      [] label \in {"generos", "genero"} -> 5
      [] label = "classificacao" -> 6
      [] label = "epoca" -> 7
      [] label = "estudio" -> 8

\* the first five entries of a list, as a set
FirstFive(list) == {list[j] : j \in {h \in DOMAIN list : h <= 5}}

\* what the item and its anchor share under the reason of priority p
SharedUnder(p, m, a) ==
    CASE p = 1 -> IF /\ m.belongs_to_collection # <<>> /\ a.belongs_to_collection # <<>>
                     /\ m.belongs_to_collection[1].id = a.belongs_to_collection[1].id
                  THEN {m.belongs_to_collection[1].name} ELSE {}
      [] p = 2 -> IF m.director # "" /\ m.director = a.director THEN {m.director} ELSE {}
      [] p = 3 -> Range(m.keywords) \cap Range(a.keywords)
      [] p = 4 -> FirstFive(m.cast) \cap FirstFive(a.cast)
      [] p = 5 -> Range(m.genres) \cap Range(a.genres)
      [] p = 6 -> IF m.certification # "" /\ m.certification = a.certification
                  THEN {m.certification} ELSE {}
      [] p = 7 -> IF m.decade # "" /\ m.decade = a.decade THEN {m.decade} ELSE {}
      [] p = 8 -> Range(m.production_companies) \cap Range(a.production_companies)

\* the priorities of the reasons that apply to the item and its anchor
Applying(m, a) == {p \in 1..8 : SharedUnder(p, m, a) # {}}

\* the catalog item with this title
Titled(title) == movies[CHOOSE i \in DOMAIN movies : movies[i].title = title]

\* C25: the reasons of a recommended item against its anchor are the first at
\* most 4, in the order collection, director, keywords, cast (first 5 of each),
\* genres, certification, decade, studio, of the reasons that apply; each names
\* only what the two items share.
C25_ReasonPriority ==
    \A s \in Slots : \A i \in DOMAIN result[s] :
        LET reason == result[s][i].reason
            m == movies[result[s][i].item]
            a == Titled(reason.anchor)
            shown == [j \in DOMAIN reason.reasons |-> PriorityOf(reason.reasons[j].label)]
        IN reason.anchor # "" =>
              /\ Len(shown) = Min(4, Cardinality(Applying(m, a)))
              /\ \A j \in DOMAIN shown :
                    /\ shown[j] \in Applying(m, a)
                    /\ j > 1 => shown[j - 1] < shown[j]
                    /\ Range(reason.reasons[j].values) \subseteq SharedUnder(shown[j], m, a)
                    /\ reason.reasons[j].values # <<>>
              /\ \A p \in Applying(m, a) \ Range(shown) : \A j \in DOMAIN shown : shown[j] < p

\* C25 happens: more than 4 reasons apply to a returned item and its anchor,
\* the studio among them, and 4 are shown
C25_Witness ==
    \E s \in Slots :
        /\ pc[s] = "done"
        /\ \E i \in DOMAIN result[s] :
              /\ result[s][i].reason.anchor # ""
              /\ Cardinality(Applying(movies[result[s][i].item],
                                      Titled(result[s][i].reason.anchor))) > 4
              /\ 8 \in Applying(movies[result[s][i].item], Titled(result[s][i].reason.anchor))
              /\ Len(result[s][i].reason.reasons) = 4

\* no id occurs twice in the list
NoDuplicate(list) == \A i, j \in DOMAIN list : i # j => list[i] # list[j]

\* C26: after any sequence of add_like, add_dislike and remove_feedback calls
\* the liked and the disliked list of a user are disjoint and without
\* duplicates; the most recent add_like or add_dislike of a movie decides which
\* list holds it; remove_feedback takes it from both lists and from ratings.
C26_FeedbackLists ==
    \A u \in DOMAIN db.users :
        LET user == db.users[u]
        IN /\ Range(user.liked_movies) \cap Range(user.disliked_movies) = {}
           /\ NoDuplicate(user.liked_movies)
           /\ NoDuplicate(user.disliked_movies)
           /\ \A m \in FeedbackIds :
                 /\ last_fb[<<u, m>>] = "like" =>
                       m \in Range(user.liked_movies) /\ m \notin Range(user.disliked_movies)
                 /\ last_fb[<<u, m>>] = "dislike" =>
                       m \in Range(user.disliked_movies) /\ m \notin Range(user.liked_movies)
                 /\ last_fb[<<u, m>>] = "" =>
                       m \notin Range(user.liked_movies) \cup Range(user.disliked_movies)
           /\ (ret.op = "remove_feedback" /\ ret.user = u) =>
                 ret.movie \notin Range(user.liked_movies) \cup Range(user.disliked_movies)
                                    \cup DOMAIN user.ratings

\* C26 happens: a movie that was rated and is in a list of its user has just
\* been liked, and the user has a liked and a disliked movie
C26_Witness ==
    /\ ret.op = "add_like"
    /\ ret.user \in DOMAIN db.users
    /\ ret.movie \in Range(db.users[ret.user].liked_movies)
    /\ ret.movie \in DOMAIN db.users[ret.user].ratings
    /\ db.users[ret.user].disliked_movies # <<>>

\* C27: after a /feedback like or dislike of a movie by a user and until a
\* later DELETE /feedback of it, no /recommendations response for that user
\* contains the movie, however the requests interleave.
C27_FeedbackExcludes == response.items \cap response.held = {}

\* C28: a call of update_user that returns None leaves the database as it was.
C28_FailedUpdateChangesNothing ==
    [][(ret'.op = "update_user" /\ ret'.value = NoneValue) => db' = db]_vars

\* C29: validate_token(t) returns the user id u only if create_token(u)
\* returned t before and t has since been neither revoked nor found expired;
\* once it was, every later validate_token(t) returns None.
C29_TokenLifetime ==
    /\ (ret.op = "validate_token" /\ ret.value # NoneValue) =>
          /\ ret.token \in DOMAIN issued
          /\ issued[ret.token].user_id = ret.value
          /\ ret.token \notin dead
    /\ (ret.op = "validate_token" /\ ret.token \in dead) => ret.value = NoneValue
    /\ (ret.op = "get_current_user" /\ ret.token \in dead) => ret.value = TokenInvalid

\* C29 happens: a token that was handed out and is dead has just been refused
\* while another token is alive
C29_Witness ==
    /\ ret.op = "validate_token"
    /\ ret.token \in DOMAIN issued
    /\ ret.token \in dead
    /\ ret.value = NoneValue
    /\ \E t \in DOMAIN tokens : t # ret.token /\ ~(now > tokens[t].expiry)

\* C30: every user created got an id that no user before it had, so a token
\* of a deleted user never authenticates as another user: get_current_user
\* answers it with "user not found" (or with "token invalid").
C30_IdsNeverReused ==
    /\ NoDuplicate(created)
    /\ (ret.op = "get_current_user" /\ ret.token \in DOMAIN issued) =>
          /\ ret.value > 0 =>
                /\ ret.value = issued[ret.token].user_id
                /\ AccountOf(created, ret.value) = issued[ret.token].account
          /\ issued[ret.token].user_id \notin DOMAIN db.users =>
                ret.value \in {TokenInvalid, UserNotFound}

\* C30 happens: the token of a deleted user has just been answered with "user
\* not found" after another user was created
C30_Witness ==
    /\ ret.op = "get_current_user"
    /\ ret.value = UserNotFound
    /\ ret.token \in DOMAIN issued
    /\ \E i \in DOMAIN created : i > issued[ret.token].account
    /\ DOMAIN db.users # {}


====
